---- MODULE Spec2Model ----
(***************************************************************************)
(* The OTP session store and its sliding-window rate limiter (package      *)
(* util): otpStorage, rateLimitStore and the functions that work on them.  *)
(* Strings are sequences of one-character strings.  Time is an integer     *)
(* count of clock ticks; one handler reads the clock as a single instant.  *)
(***************************************************************************)
EXTENDS Integers, Sequences, FiniteSets, TLC

VARIABLES
    now,             \* the clock, time.Now()
    otpStorage,      \* map[string]*OTPSession
    sessions,        \* the OTPSession objects otpStorage points to
    rateLimitStore,  \* map[string][]time.Time
    ret,             \* the call that returned last and what it returned
    creates,         \* how many create calls have been made
    mu,              \* sync.RWMutex: the caller that holds it, 0 when free
    pc,              \* where each concurrent caller is in its call
    frame,           \* each concurrent caller's arguments and locals
    compared         \* per object: how often its code has been compared

callers == <<mu, pc, frame, compared>>
vars == <<now, otpStorage, sessions, rateLimitStore, ret, creates, callers>>

(***************************************************************************)
(* Program constants.                                                      *)
(***************************************************************************)
OTPValidityMinutes == 10
OTPLength == 6
MaxVerificationAttempts == 3
RateLimitMinutes == 1
MaxRequestsPerMinute == 5

(***************************************************************************)
(* Bounds of the model.                                                    *)
(***************************************************************************)
\* resolution of the clock: ticks in one second
TicksPerSecond == 4
\* the clock is read at most this many ticks away from 0, from the end of
\* the rate-limit window and from the end of the validity interval
MaxDrift == 1
\* create calls in one run of the session specification
MaxCreates == 2
\* concurrent callers
NumProcs == 2

\* concurrent create calls made at one instant
NumCreators == 6
\* the longest identifier passed to NormalizeIdentifier on its own
MaxIdentifierLen == 3
\* concurrent verify calls made with the right code
NumVerifiers == 3
\* OTPService requests in flight at once
NumHandlers == 2

Second == TicksPerSecond
Minute == 60 * Second
RateLimitWindow == RateLimitMinutes * Minute
OTPValidity == OTPValidityMinutes * Minute

(***************************************************************************)
(* Go maps: a function whose domain is the set of keys present.            *)
(***************************************************************************)
EmptyMap == [k \in {} |-> 0]
Put(m, k, v) == [x \in (DOMAIN m) \cup {k} |-> IF x = k THEN v ELSE m[x]]
Delete(m, k) == [x \in (DOMAIN m) \ {k} |-> m[x]]

(***************************************************************************)
(* strings.Contains, strings.TrimSpace, strings.ToLower, regexp \d+        *)
(***************************************************************************)
Uppers == <<"A", "B", "C", "D", "E", "F", "G", "H", "I", "J", "K", "L", "M",
            "N", "O", "P", "Q", "R", "S", "T", "U", "V", "W", "X", "Y", "Z">>
Lowers == <<"a", "b", "c", "d", "e", "f", "g", "h", "i", "j", "k", "l", "m",
            "n", "o", "p", "q", "r", "s", "t", "u", "v", "w", "x", "y", "z">>
DigitChars == <<"0", "1", "2", "3", "4", "5", "6", "7", "8", "9">>

IsDigit(c) == \E i \in 1..Len(DigitChars) : DigitChars[i] = c
IsSpace(c) == c \in {" ", "\t", "\n", "\r"}

Contains(s, c) == \E i \in 1..Len(s) : s[i] = c

ToLowerChar(c) ==
    IF \E i \in 1..Len(Uppers) : Uppers[i] = c
    THEN Lowers[CHOOSE i \in 1..Len(Uppers) : Uppers[i] = c]
    ELSE c

ToLower(s) == [i \in 1..Len(s) |-> ToLowerChar(s[i])]

RECURSIVE TrimLeft(_)
TrimLeft(s) == IF s # <<>> /\ IsSpace(Head(s)) THEN TrimLeft(Tail(s)) ELSE s

RECURSIVE TrimRight(_)
TrimRight(s) ==
    IF s # <<>> /\ IsSpace(s[Len(s)])
    THEN TrimRight(SubSeq(s, 1, Len(s) - 1))
    ELSE s

TrimSpace(s) == TrimRight(TrimLeft(s))

\* strings.Join(regexp.MustCompile(`\d+`).FindAllString(s, -1), "")
JoinDigitRuns(s) == SelectSeq(s, IsDigit)

\* a normalisation that lowercases an email without trimming it
NormalizeIdentifierNoTrim(identifier) ==
    IF Contains(identifier, "@")
    THEN ToLower(identifier)
    ELSE JoinDigitRuns(identifier)

NormalizeIdentifier(identifier) ==
    IF Contains(identifier, "@")
    THEN ToLower(TrimSpace(identifier))
    ELSE JoinDigitRuns(identifier)

(***************************************************************************)
(* GenerateOTP: six bytes of crypto/rand, each printed as byte % 10.       *)
(***************************************************************************)
RandFail == <<>>

\* a GenerateOTP that prints each byte as a hexadecimal digit (byte % 16)
GenerateOTPHex(bytes) ==
    [i \in 1..OTPLength |->
        IF bytes[i] % 16 < 10
        THEN DigitChars[(bytes[i] % 16) + 1]
        ELSE Lowers[(bytes[i] % 16) - 9]]

GenerateOTP(bytes) == [i \in 1..OTPLength |-> DigitChars[(bytes[i] % 10) + 1]]

(***************************************************************************)
(* time.Time.After and time.Duration.Round                                 *)
(***************************************************************************)
After(a, b) == a > b

RoundDuration(d, m) ==
    IF d < 0
    THEN LET r == (-d) % m IN IF r + r < m THEN d + r ELSE d - m + r
    ELSE LET r == d % m IN IF r + r < m THEN d - r ELSE d + m - r

(***************************************************************************)
(* checkRateLimit(normalized) at instant t on the rate-limit map `store`:  *)
(* the map afterwards, whether an error is returned, the local             *)
(* timeUntilNextAllowed and the duration printed in the error.             *)
(***************************************************************************)
ValidRequests(requests, oneMinuteAgo) ==
    SelectSeq(requests, LAMBDA reqTime : After(reqTime, oneMinuteAgo))

\* checkRateLimit that lets the request through without recording it
checkRateLimitNoRecord(store, normalized, t) ==
    LET oneMinuteAgo == t - RateLimitWindow
    IN  IF normalized \notin DOMAIN store
        THEN [store |-> Put(store, normalized, <<>>), err |-> FALSE,
              wait |-> 0, shown |-> 0]
        ELSE
          LET validRequests == ValidRequests(store[normalized], oneMinuteAgo)
              timeUntilNextAllowed ==
                  IF validRequests = <<>> THEN 0
                  ELSE validRequests[1] + RateLimitWindow - t
          IN  IF Len(validRequests) >= MaxRequestsPerMinute
                 /\ timeUntilNextAllowed > 0
              THEN [store |-> store, err |-> TRUE,
                    wait |-> timeUntilNextAllowed,
                    shown |-> RoundDuration(timeUntilNextAllowed, Second)]
              ELSE [store |-> Put(store, normalized, validRequests),
                    err |-> FALSE, wait |-> 0, shown |-> 0]

\* checkRateLimit that counts the requests inside the window but stores the
\* whole history with the new request
checkRateLimitKeepStale(store, normalized, t) ==
    LET oneMinuteAgo == t - RateLimitWindow
    IN  IF normalized \notin DOMAIN store
        THEN [store |-> Put(store, normalized, <<t>>), err |-> FALSE,
              wait |-> 0, shown |-> 0]
        ELSE
          LET validRequests == ValidRequests(store[normalized], oneMinuteAgo)
              timeUntilNextAllowed ==
                  IF validRequests = <<>> THEN 0
                  ELSE validRequests[1] + RateLimitWindow - t
          IN  IF Len(validRequests) >= MaxRequestsPerMinute
                 /\ timeUntilNextAllowed > 0
              THEN [store |-> store, err |-> TRUE,
                    wait |-> timeUntilNextAllowed,
                    shown |-> RoundDuration(timeUntilNextAllowed, Second)]
              ELSE [store |-> Put(store, normalized, Append(store[normalized], t)),
                    err |-> FALSE, wait |-> 0, shown |-> 0]

checkRateLimit(store, normalized, t) ==
    LET oneMinuteAgo == t - RateLimitWindow
    IN  IF normalized \notin DOMAIN store
        THEN [store |-> Put(store, normalized, <<t>>), err |-> FALSE,
              wait |-> 0, shown |-> 0]
        ELSE
          LET validRequests == ValidRequests(store[normalized], oneMinuteAgo)
              timeUntilNextAllowed ==
                  IF validRequests = <<>> THEN 0
                  ELSE validRequests[1] + RateLimitWindow - t
          IN  IF Len(validRequests) >= MaxRequestsPerMinute
                 /\ timeUntilNextAllowed > 0
              THEN [store |-> store, err |-> TRUE,
                    wait |-> timeUntilNextAllowed,
                    shown |-> RoundDuration(timeUntilNextAllowed, Second)]
              ELSE [store |-> Put(store, normalized, Append(validRequests, t)),
                    err |-> FALSE, wait |-> 0, shown |-> 0]

(***************************************************************************)
(* The heap of OTPSession objects.  otpStorage maps a key to a pointer     *)
(* (a session id); `sessions` maps the ids in use to the objects.  An      *)
(* object no pointer refers to is collected.                               *)
(***************************************************************************)
Referenced(storage) == {storage[k] : k \in DOMAIN storage}

Collect(heap, live) == [s \in (DOMAIN heap) \cap live |-> heap[s]]

\* allocation: the lowest address not in use
FreshSid(heap) ==
    CHOOSE i \in 1..(Cardinality(DOMAIN heap) + 1) :
        /\ i \notin DOMAIN heap
        /\ \A j \in 1..(i - 1) : j \in DOMAIN heap

\* &OTPSession{...}
NewOTPSession(otp, t, normalizedEmail, normalizedPhone) ==
    [OTP |-> otp, CreatedAt |-> t, ExpiresAt |-> t + OTPValidity,
     Attempts |-> 0, Verified |-> FALSE,
     Email |-> normalizedEmail, PhoneNumber |-> normalizedPhone]

(***************************************************************************)
(* CreateOTPSessionWithBoth                                                *)
(***************************************************************************)
\* a create that limits the primary identifier alone
IdentifiersToCheckPrimaryOnly(primaryIdentifier, email, phone) ==
    <<NormalizeIdentifier(primaryIdentifier)>>

IdentifiersToCheck(primaryIdentifier, email, phone) ==
    LET normalized == NormalizeIdentifier(primaryIdentifier)
        byEmail == IF email # <<>> /\ NormalizeIdentifier(email) # normalized
                   THEN <<NormalizeIdentifier(email)>> ELSE <<>>
        byPhone == IF phone # <<>> /\ NormalizeIdentifier(phone) # normalized
                   THEN <<NormalizeIdentifier(phone)>> ELSE <<>>
    IN  <<normalized>> \o byEmail \o byPhone

\* for _, id := range identifiersToCheck { if err := checkRateLimit(id) ... }
RECURSIVE CheckRateLimits(_, _, _)
CheckRateLimits(store, ids, t) ==
    IF ids = <<>>
    THEN [store |-> store, err |-> FALSE, wait |-> 0, shown |-> 0]
    ELSE LET r == checkRateLimit(store, Head(ids), t)
         IN  IF r.err THEN r ELSE CheckRateLimits(r.store, Tail(ids), t)

\* an install that leaves a session already stored under the primary key
InstallSessionKeepPending(storage, heap, normalized, normalizedEmail, normalizedPhone, session) ==
    IF normalized \in DOMAIN storage
    THEN [storage |-> storage, heap |-> heap]
    ELSE [storage |-> Put(storage, normalized, FreshSid(heap)),
          heap |-> Put(heap, FreshSid(heap), session)]

\* an install that stores a copy of the session under the email key
InstallSessionCopies(storage, heap, normalized, normalizedEmail, normalizedPhone, session) ==
    LET sid == FreshSid(heap)
        h1 == Put(heap, sid, session)
        s1 == Put(storage, normalized, sid)
        copy == FreshSid(h1)
    IN  IF normalizedEmail # <<>> /\ normalizedEmail # normalized
        THEN [storage |-> Put(s1, normalizedEmail, copy),
              heap |-> Put(h1, copy, session)]
        ELSE [storage |-> s1, heap |-> h1]

\* the session is allocated once and stored under the primary key and under
\* the email and phone keys that differ from it
InstallSession(storage, heap, normalized, normalizedEmail, normalizedPhone, session) ==
    LET sid == FreshSid(heap)
        s1 == Put(storage, normalized, sid)
        s2 == IF normalizedEmail # <<>> /\ normalizedEmail # normalized
              THEN Put(s1, normalizedEmail, sid) ELSE s1
        s3 == IF /\ normalizedPhone # <<>>
                 /\ normalizedPhone # normalized
                 /\ normalizedPhone # normalizedEmail
              THEN Put(s2, normalizedPhone, sid) ELSE s2
    IN  [storage |-> s3, heap |-> Put(heap, sid, session)]

\* what a create overwrote: the keys written that held a session before
Replaced(storage, heap, after) ==
    {[key |-> k, sid |-> storage[k], OTP |-> heap[storage[k]].OTP] :
        k \in {x \in DOMAIN storage : after[x] # storage[x]}}

NoRet == [op |-> "none", key |-> <<>>, ids |-> <<>>, code |-> <<>>,
          res |-> "none", n |-> 0, wait |-> 0, replaced |-> {},
          delivered |-> {}]

CreateWithBothResult(storage, heap, store, primaryIdentifier, email, phone, rnd, t) ==
    LET normalized == NormalizeIdentifier(primaryIdentifier)
        ids == IdentifiersToCheck(primaryIdentifier, email, phone)
        rl == CheckRateLimits(store, ids, t)
        normalizedEmail == IF email # <<>> THEN NormalizeIdentifier(email) ELSE <<>>
        normalizedPhone == IF phone # <<>> THEN NormalizeIdentifier(phone) ELSE <<>>
        base == [NoRet EXCEPT !.op = "create", !.key = normalized, !.ids = ids]
    IN  IF rl.err
        THEN [storage |-> storage, heap |-> heap, store |-> rl.store,
              ret |-> [base EXCEPT !.res = "RateLimitExceeded",
                                   !.wait = rl.wait, !.n = rl.shown]]
        ELSE IF rnd = RandFail
        THEN [storage |-> storage, heap |-> heap, store |-> rl.store,
              ret |-> [base EXCEPT !.res = "RandomSourceFailure"]]
        ELSE
          LET otp == GenerateOTP(rnd)
              in == InstallSession(storage, heap, normalized, normalizedEmail,
                        normalizedPhone,
                        NewOTPSession(otp, t, normalizedEmail, normalizedPhone))
          IN  [storage |-> in.storage,
               heap |-> Collect(in.heap, Referenced(in.storage)),
               store |-> rl.store,
               ret |-> [base EXCEPT !.res = "ok", !.code = otp,
                            !.replaced = Replaced(storage, heap, in.storage)]]

(***************************************************************************)
(* CreateOTPSession                                                        *)
(***************************************************************************)
CreateResult(storage, heap, store, identifier, rnd, t) ==
    LET normalized == NormalizeIdentifier(identifier)
        rl == checkRateLimit(store, normalized, t)
        base == [NoRet EXCEPT !.op = "create", !.key = normalized,
                              !.ids = <<normalized>>]
    IN  IF rl.err
        THEN [storage |-> storage, heap |-> heap, store |-> rl.store,
              ret |-> [base EXCEPT !.res = "RateLimitExceeded",
                                   !.wait = rl.wait, !.n = rl.shown]]
        ELSE IF rnd = RandFail
        THEN [storage |-> storage, heap |-> heap, store |-> rl.store,
              ret |-> [base EXCEPT !.res = "RandomSourceFailure"]]
        ELSE
          LET otp == GenerateOTP(rnd)
              sid == FreshSid(heap)
              after == Put(storage, normalized, sid)
          IN  [storage |-> after,
               heap |-> Collect(Put(heap, sid, NewOTPSession(otp, t, <<>>, <<>>)),
                                Referenced(after)),
               store |-> rl.store,
               ret |-> [base EXCEPT !.res = "ok", !.code = otp,
                            !.replaced = Replaced(storage, heap, after)]]

(***************************************************************************)
(* VerifyOTPSession: the lookup and the checks that come before an         *)
(* attempt is counted, then the counted attempt.                           *)
(***************************************************************************)
\* VerifyChecks without the Verified test
VerifyChecksNoVerifiedTest(storage, heap, normalized, t) ==
    IF normalized \notin DOMAIN storage
    THEN [storage |-> storage, res |-> "NotFound"]
    ELSE LET session == heap[storage[normalized]]
         IN  IF After(t, session.ExpiresAt)
             THEN [storage |-> Delete(storage, normalized), res |-> "Expired"]
             ELSE IF session.Attempts >= MaxVerificationAttempts
             THEN [storage |-> Delete(storage, normalized),
                   res |-> "AttemptsExhausted"]
             ELSE [storage |-> storage, res |-> "proceed"]

\* VerifyChecks without the expiry test
VerifyChecksNoExpiryTest(storage, heap, normalized, t) ==
    IF normalized \notin DOMAIN storage
    THEN [storage |-> storage, res |-> "NotFound"]
    ELSE LET session == heap[storage[normalized]]
         IN  IF session.Verified
             THEN [storage |-> storage, res |-> "AlreadyVerified"]
             ELSE IF session.Attempts >= MaxVerificationAttempts
             THEN [storage |-> Delete(storage, normalized),
                   res |-> "AttemptsExhausted"]
             ELSE [storage |-> storage, res |-> "proceed"]

\* VerifyChecks with the expiry test ahead of the Verified test
VerifyChecksExpiryFirst(storage, heap, normalized, t) ==
    IF normalized \notin DOMAIN storage
    THEN [storage |-> storage, res |-> "NotFound"]
    ELSE LET session == heap[storage[normalized]]
         IN  IF After(t, session.ExpiresAt)
             THEN [storage |-> Delete(storage, normalized), res |-> "Expired"]
             ELSE IF session.Verified
             THEN [storage |-> storage, res |-> "AlreadyVerified"]
             ELSE IF session.Attempts >= MaxVerificationAttempts
             THEN [storage |-> Delete(storage, normalized),
                   res |-> "AttemptsExhausted"]
             ELSE [storage |-> storage, res |-> "proceed"]

\* VerifyChecks without the test of the attempts already made
VerifyChecksNoAttemptsTest(storage, heap, normalized, t) ==
    IF normalized \notin DOMAIN storage
    THEN [storage |-> storage, res |-> "NotFound"]
    ELSE LET session == heap[storage[normalized]]
         IN  IF session.Verified
             THEN [storage |-> storage, res |-> "AlreadyVerified"]
             ELSE IF After(t, session.ExpiresAt)
             THEN [storage |-> Delete(storage, normalized), res |-> "Expired"]
             ELSE [storage |-> storage, res |-> "proceed"]

\* VerifyChecks that removes every key of a session it finds expired
VerifyChecksExpiredCascade(storage, heap, normalized, t) ==
    IF normalized \notin DOMAIN storage
    THEN [storage |-> storage, res |-> "NotFound"]
    ELSE LET session == heap[storage[normalized]]
         IN  IF session.Verified
             THEN [storage |-> storage, res |-> "AlreadyVerified"]
             ELSE IF After(t, session.ExpiresAt)
             THEN [storage |-> [k \in {x \in DOMAIN storage :
                                          storage[x] # storage[normalized]}
                                   |-> storage[k]],
                   res |-> "Expired"]
             ELSE IF session.Attempts >= MaxVerificationAttempts
             THEN [storage |-> Delete(storage, normalized),
                   res |-> "AttemptsExhausted"]
             ELSE [storage |-> storage, res |-> "proceed"]

VerifyChecks(storage, heap, normalized, t) ==
    IF normalized \notin DOMAIN storage
    THEN [storage |-> storage, res |-> "NotFound"]
    ELSE LET session == heap[storage[normalized]]
         IN  IF session.Verified
             THEN [storage |-> storage, res |-> "AlreadyVerified"]
             ELSE IF After(t, session.ExpiresAt)
             THEN [storage |-> Delete(storage, normalized), res |-> "Expired"]
             ELSE IF session.Attempts >= MaxVerificationAttempts
             THEN [storage |-> Delete(storage, normalized),
                   res |-> "AttemptsExhausted"]
             ELSE [storage |-> storage, res |-> "proceed"]

\* VerifyAttempt with the last attempt answered like the others (remaining >= 0)
VerifyAttemptOffByOne(storage, heap, normalized, sid, otpCode) ==
    LET attempts == heap[sid].Attempts + 1
        counted == [heap EXCEPT ![sid].Attempts = attempts]
        remaining == MaxVerificationAttempts - attempts
    IN  IF heap[sid].OTP # otpCode
        THEN IF remaining >= 0
             THEN [storage |-> storage, heap |-> counted,
                   res |-> "CodeMismatch", n |-> remaining]
             ELSE [storage |-> Delete(storage, normalized), heap |-> counted,
                   res |-> "AttemptsExhausted", n |-> 0]
        ELSE [storage |-> storage,
              heap |-> [counted EXCEPT ![sid].Verified = TRUE],
              res |-> "ok", n |-> 0]

\* session.Attempts++ and the comparison, on the object `sid` points to
\* VerifyAttempt that answers a matching code without setting Verified
VerifyAttemptNoMark(storage, heap, normalized, sid, otpCode) ==
    LET attempts == heap[sid].Attempts + 1
        counted == [heap EXCEPT ![sid].Attempts = attempts]
        remaining == MaxVerificationAttempts - attempts
    IN  IF heap[sid].OTP # otpCode
        THEN IF remaining > 0
             THEN [storage |-> storage, heap |-> counted,
                   res |-> "CodeMismatch", n |-> remaining]
             ELSE [storage |-> Delete(storage, normalized), heap |-> counted,
                   res |-> "AttemptsExhausted", n |-> 0]
        ELSE [storage |-> storage, heap |-> counted, res |-> "ok", n |-> 0]

VerifyAttempt(storage, heap, normalized, sid, otpCode) ==
    LET attempts == heap[sid].Attempts + 1
        counted == [heap EXCEPT ![sid].Attempts = attempts]
        remaining == MaxVerificationAttempts - attempts
    IN  IF heap[sid].OTP # otpCode
        THEN IF remaining > 0
             THEN [storage |-> storage, heap |-> counted,
                   res |-> "CodeMismatch", n |-> remaining]
             ELSE [storage |-> Delete(storage, normalized), heap |-> counted,
                   res |-> "AttemptsExhausted", n |-> 0]
        ELSE [storage |-> storage,
              heap |-> [counted EXCEPT ![sid].Verified = TRUE],
              res |-> "ok", n |-> 0]

VerifyResult(storage, heap, identifier, otpCode, t) ==
    LET normalized == NormalizeIdentifier(identifier)
        chk == VerifyChecks(storage, heap, normalized, t)
        base == [NoRet EXCEPT !.op = "verify", !.key = normalized,
                              !.code = otpCode]
    IN  IF chk.res # "proceed"
        THEN [storage |-> chk.storage,
              heap |-> Collect(heap, Referenced(chk.storage)),
              ret |-> [base EXCEPT !.res = chk.res]]
        ELSE LET att == VerifyAttempt(storage, heap, normalized,
                                      storage[normalized], otpCode)
             IN  [storage |-> att.storage,
                  heap |-> Collect(att.heap, Referenced(att.storage)),
                  ret |-> [base EXCEPT !.res = att.res, !.n = att.n]]

(***************************************************************************)
(* IsVerified, ClearOTPSession, CleanupExpiredSessions                     *)
(***************************************************************************)
\* a lookup that reports every stored session as verified
IsVerifiedResultAnySession(storage, heap, identifier) ==
    NormalizeIdentifier(identifier) \in DOMAIN storage

IsVerifiedResult(storage, heap, identifier) ==
    LET normalized == NormalizeIdentifier(identifier)
    IN  normalized \in DOMAIN storage /\ heap[storage[normalized]].Verified

\* a clear that also removes the other keys of the same session
ClearResultCascade(storage, identifier) ==
    LET normalized == NormalizeIdentifier(identifier)
    IN  IF normalized \notin DOMAIN storage
        THEN storage
        ELSE [k \in {x \in DOMAIN storage : storage[x] # storage[normalized]}
                 |-> storage[k]]

ClearResult(storage, identifier) == Delete(storage, NormalizeIdentifier(identifier))

\* a sweep that removes a session at the instant it expires at
CleanupSessionsAtExpiry(storage, heap, t) ==
    [k \in {x \in DOMAIN storage : After(heap[storage[x]].ExpiresAt, t)}
        |-> storage[k]]

\* a sweep that spares the sessions that are verified
CleanupSessionsKeepVerified(storage, heap, t) ==
    [k \in {x \in DOMAIN storage :
                heap[storage[x]].Verified \/ ~After(t, heap[storage[x]].ExpiresAt)}
        |-> storage[k]]

CleanupSessions(storage, heap, t) ==
    [k \in {x \in DOMAIN storage : ~After(t, heap[storage[x]].ExpiresAt)}
        |-> storage[k]]

\* a sweep that also drops the oldest request of every history it keeps
CleanupRateLimitsDropOldest(store, t) ==
    LET oneMinuteAgo == t - RateLimitWindow
    IN  [k \in {x \in DOMAIN store : ValidRequests(store[x], oneMinuteAgo) # <<>>}
            |-> Tail(ValidRequests(store[k], oneMinuteAgo))]

CleanupRateLimits(store, t) ==
    LET oneMinuteAgo == t - RateLimitWindow
    IN  [k \in {x \in DOMAIN store : ValidRequests(store[x], oneMinuteAgo) # <<>>}
            |-> ValidRequests(store[k], oneMinuteAgo)]

(***************************************************************************)
(* Inputs.                                                                 *)
(***************************************************************************)
Phone1 == <<"+", "1">>
Phone2 == <<"2", " ">>
Email1 == <<"A", "@", "b">>
Email1b == <<"a", "@", "b", " ">>

Identifiers == {Phone1, Email1, Email1b}

\* <<primaryIdentifier, email, phone>> as OTPService.Send passes them: the
\* phone when there is one, else the email, is the primary identifier
SendRequests == {<<Email1, Email1, <<>>>>, <<Phone1, Email1b, Phone1>>}

\* what rand.Read can fill the six bytes with, or its failure
RandomReads == {<<1, 2, 3, 4, 5, 6>>, <<255, 250, 13, 104, 25, 96>>,
                <<11, 12, 13, 14, 15, 16>>, RandFail}

Codes == {GenerateOTP(b) : b \in RandomReads \ {RandFail}}

\* the instants at which the clock is read: the start, the end of the
\* validity interval of a session made at the start, and MaxDrift later
SessionInstants == {0, OTPValidity, OTPValidity + MaxDrift}

\* the start and up to MaxDrift later, and the end of the rate-limit window
\* that opened at the start and up to MaxDrift before it
LimiterInstants ==
    (0..MaxDrift) \cup ((RateLimitWindow - MaxDrift)..RateLimitWindow)

(***************************************************************************)
(* The store used by one caller at a time.  A call is one action: it holds *)
(* mu from its first to its last statement.  ret is what the call hands    *)
(* back; the caller takes it (Return) before the next call is made.        *)
(***************************************************************************)
Procs == 1..NumProcs

NoFrame == [op |-> "none", normalized |-> <<>>, otpCode |-> <<>>, rq |-> <<>>,
            rnd |-> <<>>, session |-> 0, res |-> "none"]

Init ==
    /\ now = 0
    /\ otpStorage = EmptyMap
    /\ sessions = EmptyMap
    /\ rateLimitStore = EmptyMap
    /\ ret = NoRet
    /\ creates = 0
    /\ mu = 0
    /\ pc = [p \in Procs |-> "idle"]
    /\ frame = [p \in Procs |-> NoFrame]
    /\ compared = EmptyMap

Tick(t) ==
    /\ ret = NoRet
    /\ t > now
    /\ now' = t
    /\ UNCHANGED <<otpStorage, sessions, rateLimitStore, ret>>

Return ==
    /\ ret # NoRet
    /\ ret' = NoRet
    /\ UNCHANGED <<now, otpStorage, sessions, rateLimitStore>>

CreateOTPSession(identifier, rnd) ==
    LET r == CreateResult(otpStorage, sessions, rateLimitStore,
                          identifier, rnd, now)
    IN  /\ ret = NoRet
        /\ otpStorage' = r.storage
        /\ sessions' = r.heap
        /\ rateLimitStore' = r.store
        /\ ret' = r.ret
        /\ UNCHANGED now

CreateOTPSessionWithBoth(primaryIdentifier, email, phone, rnd) ==
    LET r == CreateWithBothResult(otpStorage, sessions, rateLimitStore,
                                  primaryIdentifier, email, phone, rnd, now)
    IN  /\ ret = NoRet
        /\ otpStorage' = r.storage
        /\ sessions' = r.heap
        /\ rateLimitStore' = r.store
        /\ ret' = r.ret
        /\ UNCHANGED now

VerifyOTPSession(identifier, otpCode) ==
    LET r == VerifyResult(otpStorage, sessions, identifier, otpCode, now)
    IN  /\ ret = NoRet
        /\ otpStorage' = r.storage
        /\ sessions' = r.heap
        /\ ret' = r.ret
        /\ UNCHANGED <<now, rateLimitStore>>

IsVerified(identifier) ==
    /\ ret = NoRet
    /\ ret' = [NoRet EXCEPT !.op = "isVerified",
                   !.key = NormalizeIdentifier(identifier),
                   !.res = IF IsVerifiedResult(otpStorage, sessions, identifier)
                           THEN "true" ELSE "false"]
    /\ UNCHANGED <<now, otpStorage, sessions, rateLimitStore>>

ClearOTPSession(identifier) ==
    LET after == ClearResult(otpStorage, identifier)
    IN  /\ ret = NoRet
        /\ otpStorage' = after
        /\ sessions' = Collect(sessions, Referenced(after))
        /\ ret' = [NoRet EXCEPT !.op = "clear",
                       !.key = NormalizeIdentifier(identifier), !.res = "ok"]
        /\ UNCHANGED <<now, rateLimitStore>>

CleanupExpiredSessions ==
    LET after == CleanupSessions(otpStorage, sessions, now)
    IN  /\ ret = NoRet
        /\ otpStorage' = after
        /\ sessions' = Collect(sessions, Referenced(after))
        /\ rateLimitStore' = CleanupRateLimits(rateLimitStore, now)
        /\ ret' = [NoRet EXCEPT !.op = "cleanup", !.res = "ok"]
        /\ UNCHANGED now

CreateCalls(singles, requests, reads) ==
    \/ \E identifier \in singles, rnd \in reads :
           CreateOTPSession(identifier, rnd)
    \/ \E rq \in requests, rnd \in reads :
           CreateOTPSessionWithBoth(rq[1], rq[2], rq[3], rnd)

SessionCalls(identifiers) ==
    \/ \E identifier \in identifiers, otpCode \in Codes :
           VerifyOTPSession(identifier, otpCode)
    \/ \E identifier \in identifiers : IsVerified(identifier)
    \/ \E identifier \in identifiers : ClearOTPSession(identifier)

\* the session life cycle, with a bounded number of create calls
Next ==
    \/ /\ creates < MaxCreates
       /\ CreateCalls({Phone1}, SendRequests, RandomReads)
       /\ creates' = creates + 1
       /\ UNCHANGED callers
    \/ /\ \/ \E t \in SessionInstants : Tick(t)
          \/ Return
          \/ SessionCalls(Identifiers)
          \/ CleanupExpiredSessions
       /\ UNCHANGED <<creates, callers>>

Spec == Init /\ [][Next]_vars

\* the rate limiter: any number of create calls inside and after one window
LimiterNext ==
    /\ \/ CreateCalls({Email1}, {<<Phone1, Email1b, Phone1>>}, {<<1, 2, 3, 4, 5, 6>>})
       \/ \E t \in LimiterInstants : Tick(t)
       \/ Return
       \/ CleanupExpiredSessions
    /\ UNCHANGED <<creates, callers>>

LimiterSpec == Init /\ [][LimiterNext]_vars

(***************************************************************************)
(* The store used by several callers at once.  A call takes mu before it   *)
(* touches the maps and gives it back when it returns (defer mu.Unlock()); *)
(* between the two, its statements are steps of their own, so that what    *)
(* mu keeps apart is visible.  An object a caller points to stays on the   *)
(* heap even when no key maps to it.                                       *)
(***************************************************************************)
ConcIdentifiers == {Phone1, Email1}

ConcCodes == {GenerateOTP(<<1, 2, 3, 4, 5, 6>>), GenerateOTP(<<255, 250, 13, 104, 25, 96>>)}

\* the session pointers in the locals of the callers `ps`
Held(ps) == {frame[q].session : q \in {x \in ps : pc[x] = "attempt"}}

\* heap `after`, with the objects of `before` that a caller points to
Retain(after, before, held) ==
    [s \in (DOMAIN after) \cup (held \cap DOMAIN before) |->
        IF s \in DOMAIN after THEN after[s] ELSE before[s]]

\* mu.Lock() without mutual exclusion
MuLockNoExclusion == TRUE

\* mu.Lock() returns when no caller holds mu
MuLock == mu = 0

\* VerifyOTPSession is called: normalized := NormalizeIdentifier(identifier)
VerifyCall(p, identifier, otpCode) ==
    /\ pc[p] = "idle"
    /\ frame' = [frame EXCEPT ![p] =
                     [NoFrame EXCEPT !.op = "verify",
                                     !.normalized = NormalizeIdentifier(identifier),
                                     !.otpCode = otpCode]]
    /\ pc' = [pc EXCEPT ![p] = "lock"]
    /\ UNCHANGED <<now, otpStorage, sessions, rateLimitStore, ret, creates,
                   mu, compared>>

\* CreateOTPSessionWithBoth is called
CreateCall(p, rq, rnd) ==
    /\ pc[p] = "idle"
    /\ creates < MaxCreates
    /\ creates' = creates + 1
    /\ frame' = [frame EXCEPT ![p] =
                     [NoFrame EXCEPT !.op = "create", !.rq = rq, !.rnd = rnd]]
    /\ pc' = [pc EXCEPT ![p] = "lock"]
    /\ UNCHANGED <<now, otpStorage, sessions, rateLimitStore, ret, mu, compared>>

\* mu.Lock()
Lock(p) ==
    /\ pc[p] = "lock"
    /\ MuLock
    /\ mu' = p
    /\ pc' = [pc EXCEPT ![p] = IF frame[p].op = "verify" THEN "checks" ELSE "create"]
    /\ UNCHANGED <<now, otpStorage, sessions, rateLimitStore, ret, creates,
                   frame, compared>>

\* the body of CreateOTPSessionWithBoth
CreateBody(p) ==
    /\ pc[p] = "create"
    /\ LET rq == frame[p].rq
           r == CreateWithBothResult(otpStorage, sessions, rateLimitStore,
                                     rq[1], rq[2], rq[3], frame[p].rnd, now)
           heap == Retain(r.heap, sessions, Held(Procs \ {p}))
       IN  /\ otpStorage' = r.storage
           /\ sessions' = heap
           /\ rateLimitStore' = r.store
           /\ compared' = [s \in DOMAIN heap |->
                               IF s \in DOMAIN compared THEN compared[s] ELSE 0]
           /\ frame' = [frame EXCEPT ![p].res = r.ret.res]
    /\ pc' = [pc EXCEPT ![p] = "unlock"]
    /\ UNCHANGED <<now, ret, creates, mu>>

\* VerifyOTPSession from the lookup to the test of session.Attempts
VerifyLookup(p) ==
    /\ pc[p] = "checks"
    /\ LET normalized == frame[p].normalized
           chk == VerifyChecks(otpStorage, sessions, normalized, now)
           heap == Collect(sessions,
                           Referenced(chk.storage) \cup Held(Procs \ {p}))
       IN  IF chk.res = "proceed"
           THEN /\ frame' = [frame EXCEPT ![p].session = otpStorage[normalized]]
                /\ pc' = [pc EXCEPT ![p] = "attempt"]
                /\ UNCHANGED <<otpStorage, sessions, compared>>
           ELSE /\ otpStorage' = chk.storage
                /\ sessions' = heap
                /\ compared' = [s \in DOMAIN heap |-> compared[s]]
                /\ frame' = [frame EXCEPT ![p].res = chk.res]
                /\ pc' = [pc EXCEPT ![p] = "unlock"]
    /\ UNCHANGED <<now, rateLimitStore, ret, creates, mu>>

\* session.Attempts++ and the comparison of the codes
VerifyCount(p) ==
    /\ pc[p] = "attempt"
    /\ LET sid == frame[p].session
           att == VerifyAttempt(otpStorage, sessions, frame[p].normalized,
                                sid, frame[p].otpCode)
           heap == Collect(att.heap,
                           Referenced(att.storage) \cup Held(Procs \ {p}))
       IN  /\ otpStorage' = att.storage
           /\ sessions' = heap
           /\ compared' = [s \in DOMAIN heap |->
                               IF s = sid THEN compared[s] + 1 ELSE compared[s]]
           /\ frame' = [frame EXCEPT ![p].res = att.res, ![p].session = 0]
    /\ pc' = [pc EXCEPT ![p] = "unlock"]
    /\ UNCHANGED <<now, rateLimitStore, ret, creates, mu>>

\* the call returns: the deferred mu.Unlock()
Unlock(p) ==
    /\ pc[p] = "unlock"
    /\ mu' = 0
    /\ pc' = [pc EXCEPT ![p] = "idle"]
    /\ frame' = [frame EXCEPT ![p] = NoFrame]
    /\ UNCHANGED <<now, otpStorage, sessions, rateLimitStore, ret, creates,
                   compared>>

ConcNext ==
    \/ \E p \in Procs, identifier \in ConcIdentifiers, otpCode \in ConcCodes :
           VerifyCall(p, identifier, otpCode)
    \/ \E p \in Procs : CreateCall(p, <<Phone1, Email1b, Phone1>>, <<1, 2, 3, 4, 5, 6>>)
    \/ \E p \in Procs : Lock(p)
    \/ \E p \in Procs : CreateBody(p)
    \/ \E p \in Procs : VerifyLookup(p)
    \/ \E p \in Procs : VerifyCount(p)
    \/ \E p \in Procs : Unlock(p)
    \/ /\ \E t \in SessionInstants : Tick(t)
       /\ UNCHANGED <<creates, callers>>

ConcSpec == Init /\ [][ConcNext]_vars

(***************************************************************************)
(* NumCreators goroutines call CreateOTPSessionWithBoth with the same      *)
(* request at one instant, each once.  Inside the call the statements that *)
(* read and write the maps are steps of their own: the test of the history *)
(* of a key, the store of the new history, the store of the session.       *)
(***************************************************************************)
Creators == 1..NumCreators

RaceRequest == <<Phone1, Email1b, Phone1>>

\* the bytes rand.Read hands to creator p
CreatorRead(p) == [i \in 1..OTPLength |-> p]

RaceFrame == [ids |-> <<>>, write |-> <<>>, res |-> "none", turn |-> 0]

RaceInit ==
    /\ now = 0
    /\ otpStorage = EmptyMap
    /\ sessions = EmptyMap
    /\ rateLimitStore = EmptyMap
    /\ ret = NoRet
    /\ creates = 0
    /\ mu = 0
    /\ pc = [p \in Creators |-> "idle"]
    /\ frame = [p \in Creators |-> RaceFrame]
    /\ compared = EmptyMap

\* CreateOTPSessionWithBoth is called
RaceCall(p) ==
    /\ pc[p] = "idle"
    /\ pc' = [pc EXCEPT ![p] = "lock"]
    /\ UNCHANGED <<now, otpStorage, sessions, rateLimitStore, ret, creates,
                   mu, frame, compared>>

\* mu.Lock(), then identifiersToCheck; turn counts the acquisitions of mu
RaceLock(p) ==
    /\ pc[p] = "lock"
    /\ MuLock
    /\ mu' = p
    /\ frame' = [frame EXCEPT
           ![p].ids = IdentifiersToCheck(RaceRequest[1], RaceRequest[2], RaceRequest[3]),
           ![p].turn = 1 + Cardinality({q \in Creators : frame[q].turn > 0})]
    /\ pc' = [pc EXCEPT ![p] = "check"]
    /\ UNCHANGED <<now, otpStorage, sessions, rateLimitStore, ret, creates,
                   compared>>

\* checkRateLimit(id) up to the local validRequests that is to be stored
RaceCheck(p) ==
    /\ pc[p] = "check"
    /\ LET id == Head(frame[p].ids)
           r == checkRateLimit(rateLimitStore, id, now)
       IN  IF r.err
           THEN /\ frame' = [frame EXCEPT ![p].res = "RateLimitExceeded"]
                /\ pc' = [pc EXCEPT ![p] = "unlock"]
           ELSE /\ frame' = [frame EXCEPT ![p].write = r.store[id]]
                /\ pc' = [pc EXCEPT ![p] = "record"]
    /\ UNCHANGED <<now, otpStorage, sessions, rateLimitStore, ret, creates,
                   mu, compared>>

\* rateLimitStore[normalized] = validRequests, then the next identifier
RaceRecord(p) ==
    /\ pc[p] = "record"
    /\ rateLimitStore' = Put(rateLimitStore, Head(frame[p].ids), frame[p].write)
    /\ frame' = [frame EXCEPT ![p].ids = Tail(frame[p].ids), ![p].write = <<>>]
    /\ pc' = [pc EXCEPT ![p] =
                 IF Tail(frame[p].ids) = <<>> THEN "install" ELSE "check"]
    /\ UNCHANGED <<now, otpStorage, sessions, ret, creates, mu, compared>>

\* GenerateOTP, the new session and its stores in otpStorage
RaceInstall(p) ==
    /\ pc[p] = "install"
    /\ LET normalized == NormalizeIdentifier(RaceRequest[1])
           normalizedEmail == NormalizeIdentifier(RaceRequest[2])
           normalizedPhone == NormalizeIdentifier(RaceRequest[3])
           in == InstallSession(otpStorage, sessions, normalized,
                     normalizedEmail, normalizedPhone,
                     NewOTPSession(GenerateOTP(CreatorRead(p)), now,
                                   normalizedEmail, normalizedPhone))
       IN  /\ otpStorage' = in.storage
           /\ sessions' = Collect(in.heap, Referenced(in.storage))
    /\ frame' = [frame EXCEPT ![p].res = "ok"]
    /\ pc' = [pc EXCEPT ![p] = "unlock"]
    /\ UNCHANGED <<now, rateLimitStore, ret, creates, mu, compared>>

\* the call returns: the deferred mu.Unlock()
RaceUnlock(p) ==
    /\ pc[p] = "unlock"
    /\ mu' = 0
    /\ pc' = [pc EXCEPT ![p] = "done"]
    /\ UNCHANGED <<now, otpStorage, sessions, rateLimitStore, ret, creates,
                   frame, compared>>

RaceNext ==
    \/ \E p \in Creators : RaceCall(p)
    \/ \E p \in Creators : RaceLock(p)
    \/ \E p \in Creators : RaceCheck(p)
    \/ \E p \in Creators : RaceRecord(p)
    \/ \E p \in Creators : RaceInstall(p)
    \/ \E p \in Creators : RaceUnlock(p)

RaceSpec == RaceInit /\ [][RaceNext]_vars

(***************************************************************************)
(* NumVerifiers goroutines call VerifyOTPSession, each once, with the code *)
(* of one session that is stored under two keys, unverified, not expired   *)
(* and with attempts left (one create made it, and up to two verify calls  *)
(* with a wrong code came before).  Each names the key it likes.           *)
(***************************************************************************)
Verifiers == 1..NumVerifiers

VerifierFrame == [normalized |-> <<>>, otpCode |-> <<>>, session |-> 0, res |-> "none"]

RightCode == GenerateOTP(<<1, 2, 3, 4, 5, 6>>)
WrongCode == GenerateOTP(<<255, 250, 13, 104, 25, 96>>)

VerifiersInit ==
    /\ now = 0
    /\ otpStorage = EmptyMap
    /\ sessions = EmptyMap
    /\ rateLimitStore = EmptyMap
    /\ ret = NoRet
    /\ creates = 0
    /\ mu = 0
    /\ pc = [p \in Verifiers |-> "idle"]
    /\ frame = [p \in Verifiers |-> VerifierFrame]
    /\ compared = EmptyMap

\* the create that makes the session, before any verifier runs
SessionMade ==
    /\ creates = 0
    /\ LET r == CreateWithBothResult(otpStorage, sessions, rateLimitStore,
                                     Phone1, Email1b, Phone1, <<1, 2, 3, 4, 5, 6>>, now)
       IN  /\ otpStorage' = r.storage
           /\ sessions' = r.heap
           /\ rateLimitStore' = r.store
    /\ creates' = 1
    /\ UNCHANGED <<now, ret, mu, pc, frame, compared>>

\* a verify with a wrong code that leaves the session with attempts
WrongCodeTried(identifier) ==
    /\ creates = 1
    /\ \A p \in Verifiers : pc[p] = "idle"
    /\ \A s \in DOMAIN sessions : sessions[s].Attempts + 1 < MaxVerificationAttempts
    /\ LET r == VerifyResult(otpStorage, sessions, identifier, WrongCode, now)
       IN  /\ otpStorage' = r.storage
           /\ sessions' = r.heap
    /\ UNCHANGED <<now, rateLimitStore, ret, creates, mu, pc, frame, compared>>

\* VerifyOTPSession(identifier, the code of the session) is called
VerifierCall(p, identifier) ==
    /\ creates = 1
    /\ pc[p] = "idle"
    /\ frame' = [frame EXCEPT ![p].normalized = NormalizeIdentifier(identifier),
                              ![p].otpCode = RightCode]
    /\ pc' = [pc EXCEPT ![p] = "lock"]
    /\ UNCHANGED <<now, otpStorage, sessions, rateLimitStore, ret, creates,
                   mu, compared>>

VerifierLock(p) ==
    /\ pc[p] = "lock"
    /\ MuLock
    /\ mu' = p
    /\ pc' = [pc EXCEPT ![p] = "checks"]
    /\ UNCHANGED <<now, otpStorage, sessions, rateLimitStore, ret, creates,
                   frame, compared>>

\* from the lookup to the test of session.Attempts
VerifierLookup(p) ==
    /\ pc[p] = "checks"
    /\ LET normalized == frame[p].normalized
           chk == VerifyChecks(otpStorage, sessions, normalized, now)
       IN  IF chk.res = "proceed"
           THEN /\ frame' = [frame EXCEPT ![p].session = otpStorage[normalized]]
                /\ pc' = [pc EXCEPT ![p] = "attempt"]
                /\ UNCHANGED <<otpStorage, sessions>>
           ELSE /\ otpStorage' = chk.storage
                /\ sessions' = Collect(sessions, Referenced(chk.storage)
                                                     \cup Held(Verifiers \ {p}))
                /\ frame' = [frame EXCEPT ![p].res = chk.res]
                /\ pc' = [pc EXCEPT ![p] = "unlock"]
    /\ UNCHANGED <<now, rateLimitStore, ret, creates, mu, compared>>

\* session.Attempts++, the comparison, session.Verified = true
VerifierAttempt(p) ==
    /\ pc[p] = "attempt"
    /\ LET att == VerifyAttempt(otpStorage, sessions, frame[p].normalized,
                                frame[p].session, frame[p].otpCode)
       IN  /\ otpStorage' = att.storage
           /\ sessions' = Collect(att.heap, Referenced(att.storage)
                                                \cup Held(Verifiers \ {p}))
           /\ frame' = [frame EXCEPT ![p].res = att.res, ![p].session = 0]
    /\ pc' = [pc EXCEPT ![p] = "unlock"]
    /\ UNCHANGED <<now, rateLimitStore, ret, creates, mu, compared>>

\* the deferred mu.Unlock(); the call has returned
VerifierUnlock(p) ==
    /\ pc[p] = "unlock"
    /\ mu' = 0
    /\ pc' = [pc EXCEPT ![p] = "done"]
    /\ UNCHANGED <<now, otpStorage, sessions, rateLimitStore, ret, creates,
                   frame, compared>>

VerifiersNext ==
    \/ SessionMade
    \/ \E identifier \in ConcIdentifiers : WrongCodeTried(identifier)
    \/ \E p \in Verifiers, identifier \in ConcIdentifiers : VerifierCall(p, identifier)
    \/ \E p \in Verifiers : VerifierLock(p)
    \/ \E p \in Verifiers : VerifierLookup(p)
    \/ \E p \in Verifiers : VerifierAttempt(p)
    \/ \E p \in Verifiers : VerifierUnlock(p)

VerifiersSpec == VerifiersInit /\ [][VerifiersNext]_vars

(***************************************************************************)
(* OTPService: the handlers that call the store.  Send sweeps, creates a   *)
(* session and hands the code to the email and the SMS service; whether    *)
(* these deliver is not decided by this program.  A contact that is        *)
(* missing from the payload (a nil pointer) is the empty string here.      *)
(***************************************************************************)
Provided(contact) == TrimSpace(contact) # <<>>

\* a Send that takes the session back and answers with an error when a
\* delivery fails
SendResultRollsBack(storage, heap, store, phoneNumber, email, rnd, emailErr, smsErr, t) ==
    LET phoneProvided == Provided(phoneNumber)
        emailProvided == Provided(email)
        sw == LET after == CleanupSessions(storage, heap, t)
              IN  [storage |-> after, heap |-> Collect(heap, Referenced(after)),
                   store |-> CleanupRateLimits(store, t)]
        identifier == IF phoneProvided THEN phoneNumber ELSE email
        c == CreateWithBothResult(sw.storage, sw.heap, sw.store, identifier,
                 IF emailProvided THEN email ELSE <<>>,
                 IF phoneProvided THEN phoneNumber ELSE <<>>, rnd, t)
        failed == (emailProvided /\ emailErr) \/ (phoneProvided /\ smsErr)
    IN  IF ~phoneProvided /\ ~emailProvided
        THEN [storage |-> storage, heap |-> heap, store |-> store,
              ret |-> [NoRet EXCEPT !.op = "send", !.res = "NoContact"]]
        ELSE IF c.ret.res = "ok" /\ failed
        THEN [storage |-> sw.storage, heap |-> sw.heap, store |-> c.store,
              ret |-> [c.ret EXCEPT !.op = "send", !.res = "DeliveryFailed",
                                    !.code = <<>>]]
        ELSE [storage |-> c.storage, heap |-> c.heap, store |-> c.store,
              ret |-> [c.ret EXCEPT !.op = "send"]]

SendResult(storage, heap, store, phoneNumber, email, rnd, emailErr, smsErr, t) ==
    LET phoneProvided == Provided(phoneNumber)
        emailProvided == Provided(email)
        sw == LET after == CleanupSessions(storage, heap, t)
              IN  [storage |-> after, heap |-> Collect(heap, Referenced(after)),
                   store |-> CleanupRateLimits(store, t)]
        identifier == IF phoneProvided THEN phoneNumber ELSE email
        c == CreateWithBothResult(sw.storage, sw.heap, sw.store, identifier,
                 IF emailProvided THEN email ELSE <<>>,
                 IF phoneProvided THEN phoneNumber ELSE <<>>, rnd, t)
        delivered == (IF emailProvided /\ ~emailErr THEN {"email"} ELSE {})
                         \cup (IF phoneProvided /\ ~smsErr THEN {"sms"} ELSE {})
    IN  IF ~phoneProvided /\ ~emailProvided
        THEN [storage |-> storage, heap |-> heap, store |-> store,
              ret |-> [NoRet EXCEPT !.op = "send", !.res = "NoContact"]]
        ELSE IF c.ret.res # "ok"
        THEN [storage |-> c.storage, heap |-> c.heap, store |-> c.store,
              ret |-> [c.ret EXCEPT !.op = "send"]]
        ELSE [storage |-> c.storage, heap |-> c.heap, store |-> c.store,
              ret |-> [c.ret EXCEPT !.op = "send", !.delivered = delivered]]

\* OTPService.Verify: the sweep, then VerifyOTPSession on the phone number,
\* or on the email when no phone number is given
ServiceVerifyResult(storage, heap, store, phoneNumber, email, otpCode, t) ==
    LET after == CleanupSessions(storage, heap, t)
        identifier == IF Provided(phoneNumber) THEN phoneNumber ELSE email
        v == VerifyResult(after, Collect(heap, Referenced(after)),
                          identifier, otpCode, t)
    IN  IF ~Provided(phoneNumber) /\ ~Provided(email)
        THEN [storage |-> storage, heap |-> heap, store |-> store,
              ret |-> [NoRet EXCEPT !.op = "serviceVerify", !.res = "NoContact"]]
        ELSE [storage |-> v.storage, heap |-> v.heap,
              store |-> CleanupRateLimits(store, t),
              ret |-> [v.ret EXCEPT !.op = "serviceVerify"]]

Blank == <<" ">>

\* the phone number and the email of a payload
Payloads ==
    {<<Phone1, <<>>>>, <<<<>>, Email1>>, <<Phone1, Email1b>>, <<Blank, <<>>>>}

OTPServiceSend(phoneNumber, email, rnd, emailErr, smsErr) ==
    LET r == SendResult(otpStorage, sessions, rateLimitStore, phoneNumber,
                        email, rnd, emailErr, smsErr, now)
    IN  /\ ret = NoRet
        /\ otpStorage' = r.storage
        /\ sessions' = r.heap
        /\ rateLimitStore' = r.store
        /\ ret' = r.ret
        /\ UNCHANGED now

OTPServiceVerify(phoneNumber, email, otpCode) ==
    LET r == ServiceVerifyResult(otpStorage, sessions, rateLimitStore,
                                 phoneNumber, email, otpCode, now)
    IN  /\ ret = NoRet
        /\ otpStorage' = r.storage
        /\ sessions' = r.heap
        /\ rateLimitStore' = r.store
        /\ ret' = r.ret
        /\ UNCHANGED now

\* OTPService.Check
OTPServiceCheck(phoneNumber) ==
    /\ ret = NoRet
    /\ ret' = [NoRet EXCEPT !.op = "check",
                   !.key = NormalizeIdentifier(phoneNumber),
                   !.res = IF IsVerifiedResult(otpStorage, sessions, phoneNumber)
                           THEN "true" ELSE "false"]
    /\ UNCHANGED <<now, otpStorage, sessions, rateLimitStore>>

ServiceNext ==
    \/ /\ creates < MaxCreates
       /\ \E pl \in Payloads, rnd \in RandomReads, emailErr \in BOOLEAN, smsErr \in BOOLEAN :
              OTPServiceSend(pl[1], pl[2], rnd, emailErr, smsErr)
       /\ creates' = creates + 1
       /\ UNCHANGED callers
    \/ /\ \/ \E pl \in Payloads, otpCode \in Codes :
                 OTPServiceVerify(pl[1], pl[2], otpCode)
          \/ \E phoneNumber \in {Phone1, Email1} : OTPServiceCheck(phoneNumber)
          \/ \E t \in SessionInstants : Tick(t)
          \/ Return
       /\ UNCHANGED <<creates, callers>>

ServiceSpec == Init /\ [][ServiceNext]_vars

(***************************************************************************)
(* NormalizeIdentifier on its own: the argument is any string of at most   *)
(* MaxIdentifierLen characters of IdentifierChars; the call returns, and   *)
(* what it returned is passed in again.                                    *)
(***************************************************************************)
IdentifierChars == {"A", "b", "@", " ", "1", "+"}

RawIdentifiers ==
    UNION {[1..n -> IdentifierChars] : n \in 0..MaxIdentifierLen}

NormalizeInit ==
    /\ now = 0
    /\ otpStorage = EmptyMap
    /\ sessions = EmptyMap
    /\ rateLimitStore = EmptyMap
    /\ ret = NoRet
    /\ creates = 0
    /\ mu = 0
    /\ pc = "call"
    /\ \E identifier \in RawIdentifiers :
           frame = [identifier |-> identifier, result |-> <<>>]
    /\ compared = EmptyMap

NormalizeCall ==
    /\ pc = "call"
    /\ frame' = [frame EXCEPT !.result = NormalizeIdentifier(frame.identifier)]
    /\ pc' = "returned"
    /\ UNCHANGED <<now, otpStorage, sessions, rateLimitStore, ret, creates, mu, compared>>

\* the canonical key is used as an identifier
NormalizeAgain ==
    /\ pc = "returned"
    /\ frame' = [identifier |-> frame.result, result |-> <<>>]
    /\ pc' = "call"
    /\ UNCHANGED <<now, otpStorage, sessions, rateLimitStore, ret, creates, mu, compared>>

NormalizeNext == NormalizeCall \/ NormalizeAgain

NormalizeSpec == NormalizeInit /\ [][NormalizeNext]_vars

(***************************************************************************)
(* GenerateOTP on its own: rand.Read fails, or fills the OTPLength bytes   *)
(* with values of SampleBytes; the call returns the code and the error.    *)
(***************************************************************************)
ByteValues == 0..255

SampleBytes == {0, 9, 10, 255}

Reads == [1..OTPLength -> SampleBytes] \cup {RandFail}

GenerateInit ==
    /\ now = 0
    /\ otpStorage = EmptyMap
    /\ sessions = EmptyMap
    /\ rateLimitStore = EmptyMap
    /\ ret = NoRet
    /\ creates = 0
    /\ mu = 0
    /\ pc = "call"
    /\ \E bytes \in Reads : frame = [bytes |-> bytes, otp |-> <<>>, err |-> FALSE]
    /\ compared = EmptyMap

GenerateCall ==
    /\ pc = "call"
    /\ frame' = IF frame.bytes = RandFail
                THEN [frame EXCEPT !.otp = <<>>, !.err = TRUE]
                ELSE [frame EXCEPT !.otp = GenerateOTP(frame.bytes), !.err = FALSE]
    /\ pc' = "returned"
    /\ UNCHANGED <<now, otpStorage, sessions, rateLimitStore, ret, creates, mu, compared>>

GenerateNext == GenerateCall

GenerateSpec == GenerateInit /\ [][GenerateNext]_vars

(***************************************************************************)
(* What the claims are stated with.                                        *)
(***************************************************************************)
GoodReads == RandomReads \ {RandFail}

\* between two calls: every state of the store is reached so, since Return
\* changes ret alone
Idle == ret = NoRet

\* between two calls, while the session specification has a create call left
CanCreate == Idle /\ creates < MaxCreates

\* a verify call made now
Verify(identifier, otpCode) ==
    VerifyResult(otpStorage, sessions, identifier, otpCode, now)

\* the session a raw identifier resolves to
Mapped(identifier) == NormalizeIdentifier(identifier) \in DOMAIN otpStorage
SessionOf(identifier) == sessions[otpStorage[NormalizeIdentifier(identifier)]]

\* the objects of heap `after` are objects of `before`, none of them changed
NoObjectChanged(before, after) ==
    \A s \in DOMAIN after : s \in DOMAIN before /\ after[s] = before[s]

\* C1: once a verify has succeeded on a session (Verified is set), a verify
\* through any key that maps to it, with any code, the right one included,
\* returns AlreadyVerified and changes neither the map nor the session
\* (no attempt is counted).
C1_SingleUse ==
    Idle =>
        \A identifier \in Identifiers, otpCode \in Codes :
            (Mapped(identifier) /\ SessionOf(identifier).Verified) =>
                LET r == Verify(identifier, otpCode)
                IN  /\ r.ret.res = "AlreadyVerified"
                    /\ r.storage = otpStorage
                    /\ r.heap = sessions

\* a verify with the right code was turned down as AlreadyVerified
C1_Witness ==
    /\ ret.op = "verify"
    /\ ret.res = "AlreadyVerified"
    /\ ret.key \in DOMAIN otpStorage
    /\ sessions[otpStorage[ret.key]].OTP = ret.code
    /\ sessions[otpStorage[ret.key]].Attempts > 0

\* C2: on a stored, unverified, unexpired session, a wrong code is answered
\* by CodeMismatch with 2 remaining when no attempt was made before and with
\* 1 remaining after one attempt, the entry staying stored; after two
\* attempts it is answered by AttemptsExhausted and the entry under the key
\* is removed; a verify on a key with no entry, whatever the code, returns
\* NotFound.
C2_AttemptBound ==
    /\ Idle => \A identifier \in Identifiers, otpCode \in Codes :
        LET k == NormalizeIdentifier(identifier)
            r == Verify(identifier, otpCode)
        IN  /\ ~Mapped(identifier) =>
                  r.ret.res = "NotFound" /\ r.storage = otpStorage
            /\ ( /\ Mapped(identifier)
                 /\ ~SessionOf(identifier).Verified
                 /\ now <= SessionOf(identifier).ExpiresAt
                 /\ otpCode # SessionOf(identifier).OTP ) =>
                  LET a == SessionOf(identifier).Attempts
                  IN  /\ a \in {0, 1} =>
                            /\ r.ret.res = "CodeMismatch"
                            /\ r.ret.n = 2 - a
                            /\ r.storage = otpStorage
                            /\ r.heap[r.storage[k]].Attempts = a + 1
                            /\ ~r.heap[r.storage[k]].Verified
                      /\ a = 2 =>
                            /\ r.ret.res = "AttemptsExhausted"
                            /\ r.storage = Delete(otpStorage, k)
    /\ (ret.op = "verify" /\ ret.res = "AttemptsExhausted") =>
           ret.key \notin DOMAIN otpStorage

\* the third wrong code has just removed the entry
C2_Witness ==
    /\ ret.op = "verify"
    /\ ret.res = "AttemptsExhausted"
    /\ ret.key \notin DOMAIN otpStorage
    /\ creates = 1

\* C3: every session expires 10 minutes after it was made, and a verify on
\* an unverified session made strictly after that instant, with any code,
\* returns Expired, removes the entry under the looked-up key and changes no
\* session object (no attempt counted, Verified not set).
C3_Expiry ==
    Idle =>
        /\ \A s \in DOMAIN sessions :
               sessions[s].ExpiresAt = sessions[s].CreatedAt + 10 * 60 * TicksPerSecond
        /\ \A identifier \in Identifiers, otpCode \in Codes :
            ( /\ Mapped(identifier)
              /\ ~SessionOf(identifier).Verified
              /\ now > SessionOf(identifier).ExpiresAt ) =>
                LET r == Verify(identifier, otpCode)
                IN  /\ r.ret.res = "Expired"
                    /\ r.storage = Delete(otpStorage, NormalizeIdentifier(identifier))
                    /\ NoObjectChanged(sessions, r.heap)

\* a verify with the right code was turned down as Expired; the session is
\* still there under its other key, expired and untouched
C3_Witness ==
    /\ ret.op = "verify"
    /\ ret.res = "Expired"
    /\ ret.key \notin DOMAIN otpStorage
    /\ \E k \in DOMAIN otpStorage :
           /\ sessions[otpStorage[k]].OTP = ret.code
           /\ sessions[otpStorage[k]].ExpiresAt < now
           /\ sessions[otpStorage[k]].Attempts = 0
           /\ ~sessions[otpStorage[k]].Verified
           /\ ret.key \in {sessions[otpStorage[k]].Email,
                           sessions[otpStorage[k]].PhoneNumber}

\* requests the claims are tried on: those of the specifications, a phone
\* alone, three different keys, an email and a phone with one key that is
\* not the primary one, an email that normalizes to the empty key
AllRequests ==
    SendRequests \cup
    {<<Phone1, <<>>, Phone1>>, <<Phone1, Email1, Phone2>>,
     <<Phone2, Email1, Email1b>>, <<Phone1, <<"x">>, Phone1>>}

\* the canonical keys of a request: the primary one and those of the email
\* and phone that were supplied
SuppliedKeys(rq) ==
    {NormalizeIdentifier(rq[1])}
        \cup {NormalizeIdentifier(rq[i]) : i \in {j \in {2, 3} : rq[j] # <<>>}}

\* the keys a session is to be reachable from
AliasKeys(rq) ==
    {NormalizeIdentifier(rq[1])} \cup (SuppliedKeys(rq) \ {<<>>})

\* requests recorded for key k inside the 60 seconds that end now
InWindow(k) ==
    IF k \in DOMAIN rateLimitStore
    THEN Cardinality({i \in 1..Len(rateLimitStore[k]) :
                         rateLimitStore[k][i] > now - 60 * TicksPerSecond})
    ELSE 0

CreateNow(identifier, rnd) ==
    CreateResult(otpStorage, sessions, rateLimitStore, identifier, rnd, now)

CreateBothNow(rq, rnd) ==
    CreateWithBothResult(otpStorage, sessions, rateLimitStore,
                         rq[1], rq[2], rq[3], rnd, now)

\* n more create calls for one identifier, made at one instant
RECURSIVE CreateAgain(_, _, _, _, _)
CreateAgain(st, identifier, rnd, t, n) ==
    IF n = 0 THEN st
    ELSE CreateAgain(CreateResult(st.storage, st.heap, st.store, identifier, rnd, t),
                     identifier, rnd, t, n - 1)

\* C4: a create call for one key succeeds while fewer than 5 requests of the
\* key lie inside the trailing 60 seconds, and records itself; with 5 inside
\* it fails with RateLimitExceeded, and the wait the error carries (the
\* duration printed in its text) is strictly positive; it succeeds again
\* once 60 seconds have passed since the oldest recorded request.  From no
\* history, 5 calls in a row succeed and the 6th is denied.
C4_RateLimit ==
    Idle =>
        \A identifier \in Identifiers, rnd \in GoodReads :
            LET k == NormalizeIdentifier(identifier)
                r == CreateNow(identifier, rnd)
                here == [storage |-> otpStorage, heap |-> sessions,
                         store |-> rateLimitStore]
            IN  /\ InWindow(k) < 5 =>
                      /\ r.ret.res = "ok"
                      /\ r.store[k][Len(r.store[k])] = now
                      /\ Len(r.store[k]) = InWindow(k) + 1
                /\ InWindow(k) >= 5 =>
                      /\ r.ret.res = "RateLimitExceeded"
                      /\ r.ret.n > 0
                /\ ( /\ k \in DOMAIN rateLimitStore
                     /\ now >= rateLimitStore[k][1] + 60 * TicksPerSecond ) =>
                      r.ret.res = "ok"
                /\ InWindow(k) = 0 =>
                      /\ \A n \in 1..5 :
                             CreateAgain(here, identifier, rnd, now, n).ret.res = "ok"
                      /\ CreateAgain(here, identifier, rnd, now, 6).ret.res
                             = "RateLimitExceeded"

\* the 6th create call for one key inside a window was denied less than
\* half a second before the window ended: the wait is printed as 0s
C4_Witness ==
    /\ ret.op = "create"
    /\ ret.res = "RateLimitExceeded"
    /\ ret.ids = <<ret.key>>
    /\ ret.wait > 0
    /\ ret.n = 0
    /\ Len(rateLimitStore[ret.key]) = 5
    /\ InWindow(ret.key) = 5

\* the session a successful create leaves under key k
FreshAt(r, k, rnd) ==
    /\ k \in DOMAIN r.storage
    /\ r.storage[k] \notin DOMAIN sessions
    /\ r.heap[r.storage[k]].OTP = GenerateOTP(rnd)
    /\ r.heap[r.storage[k]].Attempts = 0
    /\ r.heap[r.storage[k]].Verified = FALSE
    /\ r.heap[r.storage[k]].CreatedAt = now
    /\ r.heap[r.storage[k]].ExpiresAt = now + 10 * 60 * TicksPerSecond

\* the code of the session that was under k does not verify any more
OldCodeDead(r, k, rnd) ==
    (k \in DOMAIN otpStorage /\ sessions[otpStorage[k]].OTP # GenerateOTP(rnd)) =>
        VerifyResult(r.storage, r.heap, k, sessions[otpStorage[k]].OTP, now).ret.res
            = "CodeMismatch"

\* C5: a create for key K is never turned down because K holds a session:
\* it succeeds or fails with RateLimitExceeded; when it succeeds K maps to a
\* new session (no attempts, unverified, expiring 10 minutes from now), and
\* a verify on K with the code of the session that was there, if it differs
\* from the new one, does not succeed; no verify succeeds with a code that
\* is not the code of the session its key maps to.
C5_Replacement ==
    /\ CanCreate =>
        /\ \A identifier \in Identifiers, rnd \in GoodReads :
            LET k == NormalizeIdentifier(identifier)
                r == CreateNow(identifier, rnd)
            IN  /\ r.ret.res \in {"ok", "RateLimitExceeded"}
                /\ InWindow(k) < 5 => r.ret.res = "ok"
                /\ r.ret.res = "ok" => FreshAt(r, k, rnd) /\ OldCodeDead(r, k, rnd)
        /\ \A rq \in AllRequests, rnd \in GoodReads :
            LET r == CreateBothNow(rq, rnd)
            IN  /\ r.ret.res \in {"ok", "RateLimitExceeded"}
                /\ (\A k \in SuppliedKeys(rq) : InWindow(k) < 3) => r.ret.res = "ok"
                /\ r.ret.res = "ok" =>
                      \A k \in AliasKeys(rq) : FreshAt(r, k, rnd) /\ OldCodeDead(r, k, rnd)
    /\ Idle =>
        \A identifier \in Identifiers, otpCode \in Codes :
            (Mapped(identifier) /\ otpCode # SessionOf(identifier).OTP) =>
                Verify(identifier, otpCode).ret.res # "ok"

\* a create has replaced the session under its key by one with another code
C5_Witness ==
    /\ ret.op = "create"
    /\ ret.res = "ok"
    /\ \E x \in ret.replaced : x.key = ret.key /\ x.OTP # ret.code
    /\ sessions[otpStorage[ret.key]].OTP = ret.code

\* C6: after a successful create has replaced a session, no key of the store
\* resolves to the replaced session, so its code verifies nowhere.
C6_ReplacedEverywhere ==
    (ret.op = "create" /\ ret.res = "ok") =>
        \A x \in ret.replaced :
            /\ \A k \in DOMAIN otpStorage : otpStorage[k] # x.sid
            /\ \A identifier \in Identifiers :
                   (Mapped(identifier) /\ x.OTP # ret.code) =>
                       Verify(identifier, x.OTP).ret.res # "ok"

\* C7: after a successful CreateOTPSessionWithBoth the primary key and the
\* non-empty email and phone keys, one to three keys, map to one session
\* object: a verify that succeeds through one of them makes a verify through
\* each of them return AlreadyVerified and IsVerified true for each, and an
\* attempt counted through one is seen through each.
C7_Aliasing ==
    CanCreate =>
        \A rq \in AllRequests, rnd \in GoodReads :
            LET r == CreateBothNow(rq, rnd)
                keys == AliasKeys(rq)
                otp == GenerateOTP(rnd)
            IN  r.ret.res = "ok" =>
                /\ Cardinality(keys) \in 1..3
                /\ \A k \in keys :
                       /\ k \in DOMAIN r.storage
                       /\ r.storage[k] = r.storage[NormalizeIdentifier(rq[1])]
                /\ \A k1 \in keys :
                       LET v == VerifyResult(r.storage, r.heap, k1, otp, now)
                       IN  /\ v.ret.res = "ok"
                           /\ \A k2 \in keys :
                                  /\ VerifyResult(v.storage, v.heap, k2, otp, now).ret.res
                                         = "AlreadyVerified"
                                  /\ IsVerifiedResult(v.storage, v.heap, k2)
                /\ \A k1 \in keys, wrong \in Codes \ {otp} :
                       LET w == VerifyResult(r.storage, r.heap, k1, wrong, now)
                       IN  \A k2 \in keys : w.heap[w.storage[k2]].Attempts = 1

\* a session made with an email and a phone was verified through one key and
\* a verify through its other key was answered AlreadyVerified
C7_Witness ==
    /\ ret.op = "verify"
    /\ ret.res = "AlreadyVerified"
    /\ ret.key \in DOMAIN otpStorage
    /\ sessions[otpStorage[ret.key]].Attempts = 1
    /\ \E k \in DOMAIN otpStorage :
           /\ k # ret.key
           /\ otpStorage[k] = otpStorage[ret.key]
    /\ creates = 1

\* C8: CreateOTPSessionWithBoth is denied with RateLimitExceeded, and
\* installs no session, whenever one of the keys of the request, the primary
\* one or another, has 5 requests inside the trailing 60 seconds.
C8_AllKeysLimited ==
    Idle =>
        \A rq \in AllRequests, rnd \in RandomReads :
            LET r == CreateBothNow(rq, rnd)
            IN  (\E k \in SuppliedKeys(rq) : InWindow(k) >= 5) =>
                    /\ r.ret.res = "RateLimitExceeded"
                    /\ r.storage = otpStorage
                    /\ r.heap = sessions

\* a request was denied for its email key while its primary key was under
\* the limit
C8_Witness ==
    /\ ret.op = "create"
    /\ ret.res = "RateLimitExceeded"
    /\ Len(ret.ids) = 2
    /\ InWindow(ret.ids[2]) >= 5
    /\ InWindow(ret.key) < 5

\* C9: a create that is rejected with RateLimitExceeded has changed neither
\* the session map nor the rate-limit history of any key.
C9_AtomicRejection ==
    Idle =>
        \A rq \in SendRequests, rnd \in RandomReads :
            LET r == CreateBothNow(rq, rnd)
            IN  r.ret.res = "RateLimitExceeded" =>
                    /\ r.store = rateLimitStore
                    /\ r.storage = otpStorage
                    /\ r.heap = sessions

\* C10: whatever the interleaving of concurrent verify calls, on one key or
\* on two aliases of one session, a session's Attempts is within 0..3 and its
\* code has been compared at most 3 times; and the read, the test and the
\* increment of Attempts of one call are atomic: the caller that has passed
\* the test and is about to increment holds mu, no other caller is between
\* its Lock and its Unlock, and the counter it tested is still below 3.
C10_AttemptsAtomic ==
    /\ \A s \in DOMAIN sessions :
           /\ sessions[s].Attempts \in 0..3
           /\ compared[s] \in 0..3
    /\ \A p \in Procs :
           pc[p] = "attempt" =>
               /\ mu = p
               /\ \A q \in Procs \ {p} : pc[q] \in {"idle", "lock"}
               /\ frame[p].session \in DOMAIN sessions
               /\ otpStorage[frame[p].normalized] = frame[p].session
               /\ sessions[frame[p].session].Attempts < 3

C10_Witness ==
    \E p \in Procs, q \in Procs :
        /\ pc[p] = "attempt"
        /\ pc[q] = "lock"
        /\ frame[q].op = "verify"
        /\ frame[q].normalized # frame[p].normalized
        /\ frame[q].normalized \in DOMAIN otpStorage
        /\ otpStorage[frame[q].normalized] = frame[p].session
        /\ sessions[frame[p].session].Attempts = 2
        /\ compared[frame[p].session] = 2
        /\ frame[p].otpCode # sessions[frame[p].session].OTP

\* the keys of the request the creators make
RaceKeys == {NormalizeIdentifier(RaceRequest[1]), NormalizeIdentifier(RaceRequest[2])}

\* the creators whose call has succeeded, and the one of them that took mu last
Succeeded == {p \in Creators : frame[p].res = "ok"}
LastSucceeded ==
    CHOOSE p \in Succeeded : \A q \in Succeeded : frame[q].turn <= frame[p].turn

Swept(storage, heap, store, t) ==
    LET after == CleanupSessions(storage, heap, t)
    IN  [storage |-> after,
         heap |-> Collect(heap, Referenced(after)),
         store |-> CleanupRateLimits(store, t)]

\* C12: a second CleanupExpiredSessions at the same instant, nothing having
\* happened in between, changes neither the session map nor the rate-limit
\* map: this holds of a sweep made in the state a sweep has just left, and
\* of two sweeps in a row made from any state between two calls.
C12_CleanupIdempotent ==
    /\ ret.op = "cleanup" =>
           LET again == Swept(otpStorage, sessions, rateLimitStore, now)
           IN  /\ again.storage = otpStorage
               /\ again.heap = sessions
               /\ again.store = rateLimitStore
    /\ Idle =>
           LET once == Swept(otpStorage, sessions, rateLimitStore, now)
               twice == Swept(once.storage, once.heap, once.store, now)
           IN  twice = once

\* a sweep has returned after the session of one key had expired and the
\* history of that key had left the window, a newer session and its history
\* being kept
C12_Witness ==
    /\ ret.op = "cleanup"
    /\ now = OTPValidity + MaxDrift
    /\ creates = 2
    /\ DOMAIN otpStorage = {NormalizeIdentifier(Email1)}
    /\ DOMAIN rateLimitStore = {NormalizeIdentifier(Email1)}
    /\ rateLimitStore[NormalizeIdentifier(Email1)] = <<OTPValidity>>

\* the requests of key k that lie inside the 60 seconds that end now
StillInWindow(k) ==
    SelectSeq(rateLimitStore[k], LAMBDA reqTime : reqTime > now - 60 * TicksPerSecond)

\* C13: when CleanupExpiredSessions has returned, no key maps to a session
\* with ExpiresAt < now and no history is empty or holds a request from
\* outside the trailing 60 seconds.  A sweep made now keeps every key whose
\* session has not expired, on the same object, unchanged, adds no key, and
\* keeps of every history exactly the requests inside the window; a verify
\* on a key with an unexpired session and a create are answered after the
\* sweep as they are without it, the create recording the same histories.
C13_CleanupFrame ==
    /\ ret.op = "cleanup" =>
           /\ \A k \in DOMAIN otpStorage : ~(sessions[otpStorage[k]].ExpiresAt < now)
           /\ \A k \in DOMAIN rateLimitStore :
                  rateLimitStore[k] # <<>> /\ StillInWindow(k) = rateLimitStore[k]
    /\ Idle =>
           LET sw == Swept(otpStorage, sessions, rateLimitStore, now)
           IN  /\ DOMAIN sw.storage \subseteq DOMAIN otpStorage
               /\ DOMAIN sw.store \subseteq DOMAIN rateLimitStore
               /\ \A k \in DOMAIN otpStorage :
                      sessions[otpStorage[k]].ExpiresAt >= now =>
                          /\ k \in DOMAIN sw.storage
                          /\ sw.storage[k] = otpStorage[k]
                          /\ sw.heap[sw.storage[k]] = sessions[otpStorage[k]]
               /\ \A k \in DOMAIN rateLimitStore :
                      IF StillInWindow(k) = <<>>
                      THEN k \notin DOMAIN sw.store
                      ELSE k \in DOMAIN sw.store /\ sw.store[k] = StillInWindow(k)
               /\ \A identifier \in Identifiers, otpCode \in Codes :
                      (Mapped(identifier) /\ SessionOf(identifier).ExpiresAt >= now) =>
                          VerifyResult(sw.storage, sw.heap, identifier, otpCode, now).ret
                              = Verify(identifier, otpCode).ret
    /\ CanCreate =>
           LET sw == Swept(otpStorage, sessions, rateLimitStore, now)
           IN  \A rq \in SendRequests, rnd \in RandomReads :
                   LET with == CreateWithBothResult(sw.storage, sw.heap, sw.store,
                                                    rq[1], rq[2], rq[3], rnd, now)
                       without == CreateBothNow(rq, rnd)
                   IN  /\ with.ret.res = without.ret.res
                       /\ with.ret.code = without.ret.code
                       /\ with.ret.wait = without.ret.wait
                       /\ \A k \in SuppliedKeys(rq) :
                              k \in DOMAIN without.store =>
                                  k \in DOMAIN with.store /\ with.store[k] = without.store[k]

\* a sweep has returned at the instant a session expires at: the session,
\* with two attempts counted, is still in the map, while the histories, a
\* validity interval old, are gone
C13_Witness ==
    /\ ret.op = "cleanup"
    /\ now = OTPValidity
    /\ rateLimitStore = EmptyMap
    /\ \E k \in DOMAIN otpStorage :
           /\ sessions[otpStorage[k]].ExpiresAt = now
           /\ sessions[otpStorage[k]].Attempts = 2

(***************************************************************************)
(* C14  Delivery independence.  Once the create inside OTPService.Send has *)
(* succeeded, the maps Send leaves and its response are the same whether   *)
(* the email delivery, the SMS delivery or both fail: the response is the  *)
(* success response, the session sits unmodified under the primary key,    *)
(* and the generated code verifies.                                        *)
(***************************************************************************)
Primary(pl) == IF Provided(pl[1]) THEN pl[1] ELSE pl[2]

VerifiedAt(k) == k \in DOMAIN otpStorage /\ sessions[otpStorage[k]].Verified

InSeq(k, seq) == \E i \in 1..Len(seq) : seq[i] = k

C15_IsVerifiedStep ==
    /\ (ret = NoRet /\ ret'.op = "isVerified") =>
         /\ (ret'.res = "true") <=> VerifiedAt(ret'.key)
         /\ ret'.res \in {"true", "false"}
         /\ UNCHANGED <<now, otpStorage, sessions, rateLimitStore>>
    /\ \A k \in DOMAIN otpStorage :
         VerifiedAt(k) =>
           \/ VerifiedAt(k)'
           \/ ret'.op = "clear" /\ ret'.key = k
           \/ ret'.op = "cleanup" /\ After(now, sessions[otpStorage[k]].ExpiresAt)
           \/ ret'.op = "create" /\ ret'.res = "ok" /\ InSeq(k, ret'.ids)

C15_IsVerified == [][C15_IsVerifiedStep]_vars

\* IsVerified has answered true for one key while another key holds a
\* session that is not verified
C15_Witness ==
    /\ ret.op = "isVerified"
    /\ ret.res = "true"
    /\ \E k \in DOMAIN otpStorage :
         k # ret.key /\ ~sessions[otpStorage[k]].Verified

(***************************************************************************)
(* C16  ClearOTPSession removes the mapping of the canonical key and       *)
(* nothing else: every other key keeps its session with the same fields,   *)
(* a verify or an IsVerified through another identifier answers as it      *)
(* would have before the clear, the rate-limit map is untouched, and       *)
(* clearing a key that is not mapped changes nothing.                      *)
(***************************************************************************)
C16_ClearStep ==
    (ret = NoRet /\ ret'.op = "clear") =>
        /\ DOMAIN otpStorage' = DOMAIN otpStorage \ {ret'.key}
        /\ \A k \in DOMAIN otpStorage' :
               sessions'[otpStorage'[k]] = sessions[otpStorage[k]]
        /\ \A id \in Identifiers :
               NormalizeIdentifier(id) # ret'.key =>
                 /\ IsVerifiedResult(otpStorage', sessions', id)
                        = IsVerifiedResult(otpStorage, sessions, id)
                 /\ \A otpCode \in Codes :
                        VerifyResult(otpStorage', sessions', id, otpCode, now).ret
                            = VerifyResult(otpStorage, sessions, id, otpCode, now).ret
        /\ UNCHANGED <<now, rateLimitStore>>
        /\ ret'.key \notin DOMAIN otpStorage =>
               UNCHANGED <<otpStorage, sessions>>

C16_ClearOneKey == [][C16_ClearStep]_vars

\* the phone key of a session has been cleared and the session is still
\* stored under its email key
C16_Witness ==
    /\ ret.op = "clear"
    /\ ret.key \notin DOMAIN otpStorage
    /\ \E k \in DOMAIN otpStorage :
         /\ sessions[otpStorage[k]].PhoneNumber = ret.key
         /\ sessions[otpStorage[k]].Email = k

(***************************************************************************)
(* C17  Verified is terminal.  Over every step, a key that is mapped to a  *)
(* verified session is afterwards mapped to the same session with the      *)
(* same code, attempts, expiry and Verified, unless the step removed the   *)
(* key (a clear of it, a sweep after the expiry) or a successful create    *)
(* stored a new session under it; and a verified session object that is    *)
(* still stored has not been written.                                      *)
(***************************************************************************)
C17_VerifiedStep ==
    /\ \A k \in DOMAIN otpStorage :
         VerifiedAt(k) =>
           \/ /\ k \in DOMAIN otpStorage'
              /\ otpStorage'[k] = otpStorage[k]
              /\ sessions'[otpStorage'[k]] = sessions[otpStorage[k]]
           \/ /\ k \notin DOMAIN otpStorage'
              /\ \/ ret'.op = "clear" /\ ret'.key = k
                 \/ ret'.op = "cleanup"
                        /\ After(now, sessions[otpStorage[k]].ExpiresAt)
           \/ /\ ret'.op = "create" /\ ret'.res = "ok" /\ InSeq(k, ret'.ids)
              /\ k \in DOMAIN otpStorage'
              /\ otpStorage'[k] \notin DOMAIN sessions
    /\ \A sid \in DOMAIN sessions \cap DOMAIN sessions' :
         sessions[sid].Verified => sessions'[sid] = sessions[sid]

C17_VerifiedTerminal == [][C17_VerifiedStep]_vars

\* a verify with the right code, after the expiry, on a session that is
\* verified: it was answered AlreadyVerified and the session is still there
C17_Witness ==
    /\ ret.op = "verify"
    /\ ret.res = "AlreadyVerified"
    /\ VerifiedAt(ret.key)
    /\ sessions[otpStorage[ret.key]].OTP = ret.code
    /\ After(now, sessions[otpStorage[ret.key]].ExpiresAt)

(***************************************************************************)
(* C18  NormalizeIdentifier returns for every string: when the string      *)
(* contains "@", the string without its leading and trailing white space,  *)
(* every letter in lower case; otherwise its decimal digits in their       *)
(* order.  Normalising the result gives the result again, and a call made  *)
(* with the raw string does what the call made with the result does.       *)
(***************************************************************************)
NonSpaceAt(s) == {i \in 1..Len(s) : ~IsSpace(s[i])}
DigitAt(s) == {i \in 1..Len(s) : IsDigit(s[i])}
Least(S) == CHOOSE i \in S : \A j \in S : i <= j
Greatest(S) == CHOOSE i \in S : \A j \in S : j <= i

C18_Normalize ==
    pc = "returned" =>
      LET x == frame.identifier
          n == frame.result
      IN  /\ Contains(x, "@") =>
                /\ Len(n) = Greatest(NonSpaceAt(x)) - Least(NonSpaceAt(x)) + 1
                /\ \A j \in 1..Len(n) :
                       n[j] = ToLowerChar(x[Least(NonSpaceAt(x)) + j - 1])
          /\ ~Contains(x, "@") =>
                /\ Len(n) = Cardinality(DigitAt(x))
                /\ \A j \in 1..Len(n) :
                       \E i \in DigitAt(x) :
                           /\ Cardinality({m \in DigitAt(x) : m < i}) = j - 1
                           /\ n[j] = x[i]
          /\ NormalizeIdentifier(n) = n
          /\ CreateResult(otpStorage, sessions, rateLimitStore, x, <<1, 2, 3, 4, 5, 6>>, now)
                 = CreateResult(otpStorage, sessions, rateLimitStore, n, <<1, 2, 3, 4, 5, 6>>, now)

\* an email with a capital letter and white space around it was normalised
C18_Witness ==
    /\ pc = "returned"
    /\ Contains(frame.identifier, "@")
    /\ Contains(frame.identifier, "A")
    /\ Len(frame.result) < Len(frame.identifier)
    /\ Len(frame.result) > 1

(***************************************************************************)
(* C19  GenerateOTP returns, whatever bytes the random source gives, a     *)
(* code of exactly 6 characters, each a decimal digit, and no error; it    *)
(* returns an error, and the empty string, only when the random source     *)
(* fails.                                                                  *)
(***************************************************************************)
C19_SixDigits ==
    pc = "returned" =>
        /\ frame.err <=> frame.bytes = RandFail
        /\ frame.err => frame.otp = <<>>
        /\ ~frame.err =>
              /\ Len(frame.otp) = 6
              /\ \A i \in 1..Len(frame.otp) :
                     frame.otp[i] \in {"0", "1", "2", "3", "4", "5", "6", "7", "8", "9"}

\* a code was returned for bytes above 9
C19_Witness ==
    /\ pc = "returned"
    /\ ~frame.err
    /\ \A i \in 1..OTPLength : frame.bytes[i] > 9
    /\ frame.otp = <<"5", "0", "5", "0", "5", "5">>

(***************************************************************************)
(* C20  Digit uniformity: when a code is returned, every digit value has   *)
(* the same number of bytes that print as it, or none of the bytes the     *)
(* code was made from lies beyond the last full run of ten byte values.    *)
(***************************************************************************)
DigitOfByte(b) == GenerateOTP([i \in 1..OTPLength |-> b])[1]

Preimages(d) == {b \in ByteValues : DigitOfByte(b) = DigitChars[d + 1]}

BiasedBytes ==
    {b \in ByteValues : b >= Cardinality(ByteValues) - (Cardinality(ByteValues) % 10)}

C20_DigitUniformity ==
    (pc = "returned" /\ ~frame.err) =>
        \/ \A d \in 0..9, e \in 0..9 :
               Cardinality(Preimages(d)) = Cardinality(Preimages(e))
        \/ \A i \in 1..OTPLength : frame.bytes[i] \notin BiasedBytes

\* a code was returned that the byte 255 went into
C20_Witness ==
    /\ pc = "returned"
    /\ ~frame.err
    /\ frame.bytes[1] = 255
    /\ frame.otp[1] = "5"

(***************************************************************************)
(* C21  Strict sliding window.  checkRateLimit counts the requests of the  *)
(* key that are strictly newer than now - 60 s.  With 5 or more of them it *)
(* fails and leaves the rate-limit map as it was, and the wait it reports  *)
(* is the oldest counted request + 60 s - now, a duration in (0, 60 s];    *)
(* otherwise it succeeds and the history of the key becomes the counted    *)
(* requests followed by now.                                               *)
(***************************************************************************)
LimitedKeys == {NormalizeIdentifier(Email1), NormalizeIdentifier(Phone1)}

Counted(k) ==
    IF k \in DOMAIN rateLimitStore
    THEN SelectSeq(rateLimitStore[k], LAMBDA reqTime : reqTime > now - 60 * TicksPerSecond)
    ELSE <<>>

C21_SlidingWindow ==
    Idle =>
        \A k \in LimitedKeys :
            LET r == checkRateLimit(rateLimitStore, k, now)
            IN  IF Len(Counted(k)) >= 5
                THEN /\ r.err
                     /\ r.store = rateLimitStore
                     /\ r.shown = Counted(k)[1] + 60 * TicksPerSecond - now
                     /\ r.shown > 0
                     /\ r.shown <= 60 * TicksPerSecond
                ELSE /\ ~r.err
                     /\ r.store[k] = Append(Counted(k), now)
                     /\ \A other \in DOMAIN r.store \ {k} :
                            other \in DOMAIN rateLimitStore
                                /\ r.store[other] = rateLimitStore[other]

\* a create was denied and the wait in the error is not the time left until
\* the oldest counted request leaves the window
C21_Witness ==
    /\ ret.op = "create"
    /\ ret.res = "RateLimitExceeded"
    /\ ret.wait > 0
    /\ ret.n # ret.wait
    /\ ret.wait = Counted(ret.key)[1] + 60 * TicksPerSecond - now

(***************************************************************************)
(* C22  Expiry boundary: a verify with the right code on an unverified     *)
(* session, made at the instant the session expires at or later, does not  *)
(* succeed.                                                                *)
(***************************************************************************)
C22_ExpiryBoundary ==
    Idle =>
        \A identifier \in Identifiers :
            ( /\ Mapped(identifier)
              /\ ~SessionOf(identifier).Verified
              /\ now >= SessionOf(identifier).CreatedAt + 10 * 60 * TicksPerSecond ) =>
                Verify(identifier, SessionOf(identifier).OTP).ret.res # "ok"

\* a verify made at the very instant the session expires at has succeeded
C22_Witness ==
    /\ ret.op = "verify"
    /\ ret.res = "ok"
    /\ ret.key \in DOMAIN otpStorage
    /\ sessions[otpStorage[ret.key]].Verified
    /\ now = sessions[otpStorage[ret.key]].CreatedAt + 10 * 60 * TicksPerSecond

(***************************************************************************)
(* C23  Exactly one success.  Whatever the interleaving of the concurrent  *)
(* verify calls that submit the right code of one session, through one key *)
(* or through its two keys: at most one call is answered with success; as  *)
(* soon as one call has returned, exactly one has succeeded; every call    *)
(* that has returned was answered with success or with AlreadyVerified,    *)
(* never with CodeMismatch or AttemptsExhausted.                           *)
(***************************************************************************)
Answered(res) == {p \in Verifiers : frame[p].res = res}
Returned == {p \in Verifiers : pc[p] = "done"}

C23_ExactlyOnce ==
    /\ Cardinality(Answered("ok")) <= 1
    /\ Returned # {} => Cardinality(Answered("ok")) = 1
    /\ \A p \in Verifiers :
           frame[p].res \in {"none", "ok", "AlreadyVerified"}
    /\ \A p \in Returned : frame[p].res \in {"ok", "AlreadyVerified"}

\* all calls have returned, one with success through one key, another with
\* AlreadyVerified through the other key, two wrong codes having come first
C23_Witness ==
    /\ Returned = Verifiers
    /\ \E p \in Verifiers, q \in Verifiers :
           /\ frame[p].res = "ok"
           /\ frame[q].res = "AlreadyVerified"
           /\ frame[p].normalized # frame[q].normalized
    /\ \E s \in DOMAIN sessions : sessions[s].Attempts = 3 /\ sessions[s].Verified

(***************************************************************************)
(* C24  The 3 attempts belong to the session, not to the key.  A third     *)
(* wrong code removes the key it came through and leaves the other keys of *)
(* the session stored, on the same object, with Attempts = 3.  A verify,   *)
(* with any code, through a key whose unverified, unexpired session has    *)
(* Attempts >= 3 returns AttemptsExhausted, removes that key and writes no *)
(* session object.  A stored unverified session with Attempts >= 3 was     *)
(* installed under two keys.                                               *)
(***************************************************************************)
\* the keys a session was installed under, by a CreateOTPSession or by a
\* CreateOTPSessionWithBoth whose primary identifier is its email or phone
KeysInstalled(session) ==
    IF session.Email = <<>> /\ session.PhoneNumber = <<>>
    THEN 1
    ELSE Cardinality({session.Email, session.PhoneNumber} \ {<<>>})

Spent(k) ==
    /\ k \in DOMAIN otpStorage
    /\ ~sessions[otpStorage[k]].Verified
    /\ sessions[otpStorage[k]].Attempts >= 3

C24_SharedStep ==
    /\ \A k \in DOMAIN otpStorage : Spent(k) => KeysInstalled(sessions[otpStorage[k]]) = 2
    /\ (ret = NoRet /\ ret'.op = "verify" /\ ret'.key \in DOMAIN otpStorage) =>
         LET k == ret'.key
             sid == otpStorage[k]
             session == sessions[sid]
             live == ~session.Verified /\ now <= session.ExpiresAt
         IN  /\ (live /\ session.Attempts = 2 /\ ret'.code # session.OTP) =>
                   /\ ret'.res = "AttemptsExhausted"
                   /\ otpStorage' = Delete(otpStorage, k)
                   /\ \A other \in DOMAIN otpStorage' :
                          otpStorage[other] = sid =>
                              /\ sessions'[sid].Attempts = 3
                              /\ ~sessions'[sid].Verified
             /\ (live /\ session.Attempts >= 3) =>
                   /\ ret'.res = "AttemptsExhausted"
                   /\ otpStorage' = Delete(otpStorage, k)
                   /\ NoObjectChanged(sessions, sessions')

C24_SharedExhaustion == [][C24_SharedStep]_vars

\* the third wrong code came through one key of a session; the session is
\* still stored under its other key, spent, unexpired
C24_Witness ==
    /\ ret.op = "verify"
    /\ ret.res = "AttemptsExhausted"
    /\ ret.key \notin DOMAIN otpStorage
    /\ \E k \in DOMAIN otpStorage :
           /\ Spent(k)
           /\ now <= sessions[otpStorage[k]].ExpiresAt
           /\ ret.key \in {sessions[otpStorage[k]].Email, sessions[otpStorage[k]].PhoneNumber}
           /\ ret.code # sessions[otpStorage[k]].OTP

(***************************************************************************)
(* C25  A create whose code generation fails returns an error and has      *)
(* changed nothing: the session map and the session objects are as before  *)
(* (a stored session still verifies with its code), and no request has     *)
(* been recorded in the rate-limit history of any key.                     *)
(***************************************************************************)
C25_RandomFailureAtomic ==
    /\ Idle =>
         /\ \A rq \in SendRequests :
              LET r == CreateBothNow(rq, RandFail)
              IN  r.ret.res = "RandomSourceFailure" =>
                      /\ r.storage = otpStorage
                      /\ r.heap = sessions
                      /\ r.store = rateLimitStore
         /\ \A identifier \in Identifiers :
              LET r == CreateNow(identifier, RandFail)
              IN  r.ret.res = "RandomSourceFailure" =>
                      /\ r.storage = otpStorage
                      /\ r.heap = sessions
                      /\ r.store = rateLimitStore
    /\ (ret.op = "create" /\ ret.res = "RandomSourceFailure") =>
         \A i \in 1..Len(ret.ids) :
             ret.ids[i] \in DOMAIN rateLimitStore =>
                 \A j \in 1..Len(rateLimitStore[ret.ids[i]]) :
                     rateLimitStore[ret.ids[i]][j] # now

\* a create has failed on the random source and its request is in the
\* history of its two keys; the session stored before is still there
C25_Witness ==
    /\ ret.op = "create"
    /\ ret.res = "RandomSourceFailure"
    /\ Len(ret.ids) = 2
    /\ \A i \in 1..2 :
           /\ ret.ids[i] \in DOMAIN rateLimitStore
           /\ rateLimitStore[ret.ids[i]][Len(rateLimitStore[ret.ids[i]])] = now
    /\ ret.key \in DOMAIN otpStorage
    /\ sessions[otpStorage[ret.key]].CreatedAt < now

(***************************************************************************)
(* C26  One record per distinct key.  A successful                         *)
(* CreateOTPSessionWithBoth leaves, for each distinct canonical key of the *)
(* request (the primary one and those of a non-empty email and phone), the *)
(* requests counted before followed by one request at now, leaves the      *)
(* other histories alone, and the keys that map to the new session are     *)
(* exactly those keys.                                                     *)
(***************************************************************************)
C26_OneRecordPerKey ==
    Idle =>
        \A rq \in AllRequests, rnd \in GoodReads :
            LET r == CreateBothNow(rq, rnd)
                keys == SuppliedKeys(rq)
            IN  r.ret.res = "ok" =>
                    /\ \A k \in keys :
                           /\ k \in DOMAIN r.store
                           /\ r.store[k] = Append(Counted(k), now)
                    /\ \A k \in DOMAIN r.store \ keys :
                           k \in DOMAIN rateLimitStore /\ r.store[k] = rateLimitStore[k]
                    /\ {k \in DOMAIN r.storage : r.storage[k] \notin DOMAIN sessions} = keys

(***************************************************************************)
(* C27  Verified outlives expiry until swept.  While a key maps to a       *)
(* verified session whose ExpiresAt has passed: a verify through the key   *)
(* is answered AlreadyVerified and changes nothing, IsVerified answers     *)
(* true, a sweep removes the key, and the key keeps mapping to the         *)
(* verified session over every step that is not a sweep, a clear of the    *)
(* key or a successful create that stores under the key.                   *)
(***************************************************************************)
VerifiedPastExpiry(k) ==
    VerifiedAt(k) /\ After(now, sessions[otpStorage[k]].ExpiresAt)

C27_OutlivesStep ==
    \A k \in DOMAIN otpStorage :
        (ret = NoRet /\ VerifiedPastExpiry(k)) =>
            /\ (ret'.op = "verify" /\ ret'.key = k) =>
                   /\ ret'.res = "AlreadyVerified"
                   /\ UNCHANGED <<otpStorage, sessions, rateLimitStore>>
            /\ (ret'.op = "isVerified" /\ ret'.key = k) => ret'.res = "true"
            /\ ret'.op = "cleanup" => k \notin DOMAIN otpStorage'
            /\ \/ VerifiedPastExpiry(k)'
               \/ ret'.op = "cleanup"
               \/ ret'.op = "clear" /\ ret'.key = k
               \/ ret'.op = "create" /\ ret'.res = "ok" /\ InSeq(k, ret'.ids)

C27_VerifiedOutlivesExpiry == [][C27_OutlivesStep]_vars

\* IsVerified has answered true for a session whose ExpiresAt has passed
C27_Witness ==
    /\ ret.op = "isVerified"
    /\ ret.res = "true"
    /\ VerifiedPastExpiry(ret.key)

(***************************************************************************)
(* C28  Rate-limit history invariant.  In every state the history stored   *)
(* for a key has 1 to 5 requests, none later than now, in non-decreasing   *)
(* order, at most 5 of them inside any 60 seconds; and between two calls,  *)
(* checkRateLimit denies a key exactly when 5 of its requests are strictly *)
(* newer than now - 60 s, whatever older requests are still stored.        *)
(***************************************************************************)
C28_HistoryInvariant ==
    /\ \A k \in DOMAIN rateLimitStore :
           LET h == rateLimitStore[k]
           IN  /\ Len(h) \in 1..5
               /\ \A i \in 1..Len(h) : h[i] <= now
               /\ \A i \in 1..Len(h), j \in 1..Len(h) : i < j => h[i] <= h[j]
               /\ \A i \in 1..Len(h) :
                      Cardinality({j \in 1..Len(h) :
                          h[i] <= h[j] /\ h[j] < h[i] + 60 * TicksPerSecond}) <= 5
    /\ Idle =>
           \A k \in LimitedKeys :
               checkRateLimit(rateLimitStore, k, now).err <=> Len(Counted(k)) >= 5

\* a key has 5 requests stored of which some, not all, have left the window
C28_Witness ==
    \E k \in DOMAIN rateLimitStore :
        /\ Len(rateLimitStore[k]) = 5
        /\ Len(Counted(k)) \in 1..4

(***************************************************************************)
(* C29  VerifyOTPSession, whatever it answers, leaves the rate-limit map   *)
(* as it was and adds no key to the session map.  Answering NotFound or    *)
(* AlreadyVerified it changes nothing.  Answering Expired it removes the   *)
(* looked-up key and writes no session object.  Answering                  *)
(* AttemptsExhausted it removes the looked-up key and writes at most the   *)
(* Attempts of the session it looked up, which a third wrong code raises   *)
(* to 3.  In every other case the mapping of every key stays.              *)
(***************************************************************************)
C29_VerifyStep ==
    (ret = NoRet /\ ret'.op = "verify") =>
        /\ UNCHANGED <<now, rateLimitStore>>
        /\ DOMAIN otpStorage' \subseteq DOMAIN otpStorage
        /\ \A k \in DOMAIN otpStorage' : otpStorage'[k] = otpStorage[k]
        /\ ret'.res \in {"NotFound", "AlreadyVerified"} =>
               UNCHANGED <<otpStorage, sessions>>
        /\ ret'.res = "Expired" =>
               /\ otpStorage' = Delete(otpStorage, ret'.key)
               /\ NoObjectChanged(sessions, sessions')
        /\ ret'.res = "AttemptsExhausted" =>
               /\ ret'.key \in DOMAIN otpStorage
               /\ otpStorage' = Delete(otpStorage, ret'.key)
               /\ \A s \in DOMAIN sessions' :
                      /\ s \in DOMAIN sessions
                      /\ IF s = otpStorage[ret'.key] /\ sessions[s].Attempts < 3
                         THEN sessions'[s] = [sessions[s] EXCEPT !.Attempts = 3]
                         ELSE sessions'[s] = sessions[s]
        /\ ret'.res \in {"ok", "CodeMismatch"} => otpStorage' = otpStorage

C29_VerifyFrame == [][C29_VerifyStep]_vars

\* a verify was answered Expired for a key that has a rate-limit history,
\* and the session is still stored under another key
C29_Witness ==
    /\ ret.op = "verify"
    /\ ret.res = "Expired"
    /\ ret.key \in DOMAIN rateLimitStore
    /\ ret.key \notin DOMAIN otpStorage
    /\ \E k \in DOMAIN otpStorage :
           /\ After(now, sessions[otpStorage[k]].ExpiresAt)
           /\ ret.key = sessions[otpStorage[k]].PhoneNumber

(***************************************************************************)
(* OTPService with requests in flight at once: after some Send requests    *)
(* served one at a time, NumHandlers goroutines serve one request each.    *)
(* A Send or a Verify request                                              *)
(* is three steps: the request is received and validated, then             *)
(* util.CleanupExpiredSessions() runs from its Lock to its Unlock, then    *)
(* the create or the verify runs from its Lock to its Unlock; the steps of *)
(* other requests and the clock may come in between.  A Check request is   *)
(* received and then looks the key up.  The deliveries of a Send touch no  *)
(* map and are left out.  In the locals of a request, expiredBefore tells  *)
(* that the session of its identifier had expired when it was received,    *)
(* swept that its sweep has run, ticked that the clock has advanced since  *)
(* its sweep, and overwritten that the create of another request has       *)
(* stored a session under its key since it was received.                   *)
(***************************************************************************)
Handlers == 1..NumHandlers

HandlerFrame ==
    [op |-> "none", phoneNumber |-> <<>>, email |-> <<>>, otpCode |-> <<>>,
     expiredBefore |-> FALSE, swept |-> FALSE, ticked |-> FALSE,
     overwritten |-> FALSE, res |-> "none"]

\* the handlers that call util.CleanupExpiredSessions(), Verify left out
SweepsFirstSendOnly(op) == op = "send"

\* the handlers that call util.CleanupExpiredSessions()
SweepsFirst(op) == op \in {"send", "verify"}

SendPayloads == {<<Phone1, Email1b>>, <<Blank, <<>>>>}

VerifyPayloads == {<<Phone1, <<>>>>, <<<<>>, Email1>>}

HandlersInit ==
    /\ now = 0
    /\ otpStorage = EmptyMap
    /\ sessions = EmptyMap
    /\ rateLimitStore = EmptyMap
    /\ ret = NoRet
    /\ creates = 0
    /\ mu = 0
    /\ pc = [p \in Handlers |-> "idle"]
    /\ frame = [p \in Handlers |-> HandlerFrame]
    /\ compared = EmptyMap

\* the primary identifier of the request in the locals f
HandlerIdentifier(f) ==
    IF Provided(f.phoneNumber) THEN f.phoneNumber ELSE f.email

\* a Send served before any of the concurrent requests arrives
ServedBefore(pl) ==
    /\ \A p \in Handlers : pc[p] = "idle"
    /\ creates < MaxCreates
    /\ creates' = creates + 1
    /\ LET r == SendResult(otpStorage, sessions, rateLimitStore, pl[1], pl[2],
                        <<1, 2, 3, 4, 5, 6>>, FALSE, FALSE, now)
       IN  /\ otpStorage' = r.storage
           /\ sessions' = r.heap
           /\ rateLimitStore' = r.store
    /\ UNCHANGED <<now, ret, mu, pc, frame, compared>>

\* a request arrives; one without contact is answered at once
HandlerReceive(p, op, pl, otpCode) ==
    /\ pc[p] = "idle"
    /\ LET f == [HandlerFrame EXCEPT !.op = op, !.phoneNumber = pl[1],
                                     !.email = pl[2], !.otpCode = otpCode]
           k == NormalizeIdentifier(HandlerIdentifier(f))
           valid == op = "check" \/ Provided(pl[1]) \/ Provided(pl[2])
       IN  /\ frame' = [frame EXCEPT ![p] =
                  IF valid
                  THEN [f EXCEPT !.expiredBefore =
                            /\ k \in DOMAIN otpStorage
                            /\ After(now, sessions[otpStorage[k]].ExpiresAt)]
                  ELSE [HandlerFrame EXCEPT !.op = op, !.res = "NoContact"]]
           /\ pc' = [pc EXCEPT ![p] =
                  IF ~valid THEN "returned"
                  ELSE IF SweepsFirst(op) THEN "sweep" ELSE "step"]
    /\ UNCHANGED <<now, otpStorage, sessions, rateLimitStore, ret, creates, mu,
                   compared>>

\* util.CleanupExpiredSessions()
HandlerSweep(p) ==
    /\ pc[p] = "sweep"
    /\ LET sw == Swept(otpStorage, sessions, rateLimitStore, now)
       IN  /\ otpStorage' = sw.storage
           /\ sessions' = sw.heap
           /\ rateLimitStore' = sw.store
    /\ frame' = [frame EXCEPT ![p].swept = TRUE]
    /\ pc' = [pc EXCEPT ![p] = "step"]
    /\ UNCHANGED <<now, ret, creates, mu, compared>>

\* util.CreateOTPSessionWithBoth, util.VerifyOTPSession or util.IsVerified;
\* of the locals, what the response is made of is kept
HandlerStep(p) ==
    /\ pc[p] = "step"
    /\ LET f == frame[p]
           identifier == HandlerIdentifier(f)
           c == CreateWithBothResult(otpStorage, sessions, rateLimitStore, identifier,
                    IF Provided(f.email) THEN f.email ELSE <<>>,
                    IF Provided(f.phoneNumber) THEN f.phoneNumber ELSE <<>>,
                    <<1, 2, 3, 4, 5, 6>>, now)
           v == VerifyResult(otpStorage, sessions, identifier, f.otpCode, now)
           stored == IF f.op = "send" /\ c.ret.res = "ok" THEN c.ret.ids ELSE <<>>
       IN  /\ otpStorage' =
                  IF f.op = "send" THEN c.storage
                  ELSE IF f.op = "verify" THEN v.storage ELSE otpStorage
           /\ sessions' =
                  IF f.op = "send" THEN c.heap
                  ELSE IF f.op = "verify" THEN v.heap ELSE sessions
           /\ rateLimitStore' = IF f.op = "send" THEN c.store ELSE rateLimitStore
           /\ frame' = [q \in Handlers |->
                  IF q = p
                  THEN [HandlerFrame EXCEPT
                           !.op = f.op, !.expiredBefore = f.expiredBefore,
                           !.swept = f.swept, !.ticked = f.ticked,
                           !.overwritten = f.overwritten,
                           !.res = IF f.op = "send" THEN c.ret.res
                                   ELSE IF f.op = "verify" THEN v.ret.res
                                   ELSE IF IsVerifiedResult(otpStorage, sessions,
                                                            f.phoneNumber)
                                        THEN "true" ELSE "false"]
                  ELSE IF /\ pc[q] \in {"sweep", "step"}
                          /\ InSeq(NormalizeIdentifier(HandlerIdentifier(frame[q])), stored)
                       THEN [frame[q] EXCEPT !.overwritten = TRUE]
                       ELSE frame[q]]
    /\ pc' = [pc EXCEPT ![p] = "returned"]
    /\ UNCHANGED <<now, ret, creates, mu, compared>>

\* the clock advances
HandlerTick(t) ==
    /\ Tick(t)
    /\ frame' = [q \in Handlers |->
           IF pc[q] = "step" /\ frame[q].swept
           THEN [frame[q] EXCEPT !.ticked = TRUE] ELSE frame[q]]
    /\ UNCHANGED <<creates, mu, pc, compared>>

HandlersNext ==
    \/ ServedBefore(<<Phone1, Email1b>>)
    \/ \E p \in Handlers, pl \in SendPayloads : HandlerReceive(p, "send", pl, <<>>)
    \/ \E p \in Handlers, pl \in VerifyPayloads, otpCode \in {RightCode, WrongCode} :
           HandlerReceive(p, "verify", pl, otpCode)
    \/ \E p \in Handlers : HandlerReceive(p, "check", <<Phone1, <<>>>>, <<>>)
    \/ \E p \in Handlers : HandlerSweep(p)
    \/ \E p \in Handlers : HandlerStep(p)
    \/ \E t \in SessionInstants : HandlerTick(t)

HandlersSpec == HandlersInit /\ [][HandlersNext]_vars

(***************************************************************************)
(* C30  Reaping order at the service layer.  A Send and a Verify request   *)
(* that is at its create or verify step has run its sweep, a Check request *)
(* never sweeps; while the clock has not advanced since the sweep of a     *)
(* request that is at its step, no stored session is expired; the maps     *)
(* keep their shape whatever the interleaving; and a Verify whose session  *)
(* had expired before the request, the clock standing still between its    *)
(* sweep and its verify, is answered NotFound.                             *)
(***************************************************************************)
ReapingOrder ==
    \A p \in Handlers :
        /\ (pc[p] = "step" /\ frame[p].op \in {"send", "verify"}) => frame[p].swept
        /\ (pc[p] = "returned" /\ frame[p].op \in {"send", "verify"}
                /\ frame[p].res # "NoContact") => frame[p].swept
        /\ frame[p].op = "check" => ~frame[p].swept
        /\ (pc[p] = "step" /\ frame[p].swept /\ ~frame[p].ticked) =>
               \A k \in DOMAIN otpStorage :
                   ~After(now, sessions[otpStorage[k]].ExpiresAt)

StoreShape ==
    /\ \A k \in DOMAIN otpStorage : otpStorage[k] \in DOMAIN sessions
    /\ \A s \in DOMAIN sessions :
           /\ sessions[s].Attempts \in 0..3
           /\ sessions[s].ExpiresAt = sessions[s].CreatedAt + 10 * 60 * TicksPerSecond
           /\ sessions[s].CreatedAt <= now
    /\ \A k \in DOMAIN rateLimitStore :
           /\ Len(rateLimitStore[k]) \in 1..5
           /\ \A i \in 1..Len(rateLimitStore[k]) : rateLimitStore[k][i] <= now
           /\ \A i \in 1..Len(rateLimitStore[k]), j \in 1..Len(rateLimitStore[k]) :
                  i < j => rateLimitStore[k][i] <= rateLimitStore[k][j]

\* the Verify requests answered after a sweep and a verify at one instant,
\* for an identifier whose session had expired before the request
AnsweredAfterExpiry ==
    {p \in Handlers : /\ pc[p] = "returned"
                      /\ frame[p].op = "verify"
                      /\ frame[p].expiredBefore
                      /\ frame[p].swept
                      /\ ~frame[p].ticked}

====
